---- MODULE Spec2Model ----
(***************************************************************************)
(* Model of the rule-based extraction pipeline of src/app.py (WebSpec      *)
(* Maker): the bullet normalizer, the title resolver, the key/value and    *)
(* bullet harvesters and rules_build_fields.                               *)
(*                                                                         *)
(* A Python str is modelled as a sequence of characters.  A character is a *)
(* one-character TLA+ string; a character outside ASCII is written as its  *)
(* code point ("U+2022" is the bullet glyph), "\n" is the line feed.       *)
(***************************************************************************)
EXTENDS Integers, Sequences, FiniteSets, TLC

VARIABLES
    pc,         \* which run this behaviour is and how far it has got
    items,      \* normalizer run: the list handed to _normalize_korean_bullets
    max_len,    \* normalizer run: its max_len argument
    out,        \* normalizer run: the list returned by the first call
    again,      \* normalizer run: the list returned when `out` is normalized again
    pdf,        \* the document behind pdf_bytes: metadata, font spans, read failures
    text,       \* the raw text of the document
    desc_max,   \* rules_build_fields: its arguments desc_max, summary_max, limit
    summary_max,
    limit,
    name,       \* rules_build_fields: its locals and, at the end, its results
    desc,
    summary,
    kv,
    bullets,
    feats,
    used,
    cat,        \* index in REQUIRED_KEYS of the category the outer loop is at
    features,   \* the feature list rules_build_fields returns
    raised,     \* whether the call left through an exception instead of a return
    prev,       \* what an earlier call with the same arguments returned, if any
    other,      \* a second invocation of rules_build_fields running beside the
                \* first: <<>> for none, else <<its arguments and locals>>
    item_cap,   \* harvester run: the max_items argument of the harvester
    session_state,  \* st.session_state: the fields the undo handlers work on
    reruns      \* how many times the script has run for a user action

normVars == <<items, max_len, out, again>>
docVars == <<pdf, text>>
argVars == <<desc_max, summary_max, limit>>
ruleVars == <<desc, summary, kv, bullets, feats, used, cat, features>>
callVars == <<raised, prev>>
harvVars == <<item_cap>>
otherVars == <<other>>
sessVars == <<session_state, reruns>>
pipeVars == <<normVars, docVars, argVars, name, ruleVars, callVars, harvVars, otherVars>>
vars == <<pc, pipeVars, sessVars>>

(***************************************************************************)
(* Characters                                                              *)
(***************************************************************************)
UPPER == <<"A","B","C","D","E","F","G","H","I","J","K","L","M",
           "N","O","P","Q","R","S","T","U","V","W","X","Y","Z">>
LOWER == <<"a","b","c","d","e","f","g","h","i","j","k","l","m",
           "n","o","p","q","r","s","t","u","v","w","x","y","z">>
UpperSet == {UPPER[i] : i \in 1..26}
LowerSet == {LOWER[i] : i \in 1..26}
Letters == UpperSet \cup LowerSet
Digits == {"0","1","2","3","4","5","6","7","8","9"}

BULLET == "U+2022"      \* the bullet glyph
BLACKCIRCLE == "U+25CF"
SMALLSQUARE == "U+25AA"
TRIBULLET == "U+2023"
ENDASH == "U+2013"
EMDASH == "U+2014"
MIDDOT == "U+00B7"
IDEOCOMMA == "U+3001"
ELLIPSIS == "U+2026"
NBSP == "U+00A0"
SQUAREMM == "U+339C"    \* the one-character "mm" sign
FULLWIDTH5 == "U+FF15"  \* the full-width digit five

\* The Hangul syllables the model's texts and alias table use (U+AC00..U+D7A3).
HangulSet ==
    {"U+ACA9", "U+ADDC", "U+ADF8", "U+AE30", "U+B124", "U+B311", "U+B3C4", "U+B3D9",
     "U+B798", "U+B825", "U+B85C", "U+B9AC", "U+BA54", "U+BA85", "U+BAA8", "U+C11C",
     "U+C138", "U+C218", "U+C2A4", "U+C5B4", "U+C628", "U+C678", "U+C6CC", "U+C6D0",
     "U+C785", "U+C791", "U+C804", "U+C81C", "U+C9C0", "U+CD9C", "U+CE58", "U+D06C",
     "U+D130", "U+D1A0", "U+D2B8", "U+D3EC", "U+D488", "U+D504", "U+D53D", "U+D55C",
     "U+D615"}

\* str.isspace(): the white space str.strip() removes and the regex \s matches.
WhiteSpace == {" ", "\n", "\r", "\t", NBSP}

\* The regex class \w (Unicode): letters, digits, underscore.
IsWord(c) == c \in Letters \cup Digits \cup {"_"} \cup HangulSet

\* One character of str.lower().
LowerChar(c) ==
    IF c \in UpperSet THEN LOWER[CHOOSE i \in 1..26 : UPPER[i] = c] ELSE c

\* One character of unicodedata.normalize("NFKC", .): its compatibility
\* decomposition (no character of the model composes with a neighbour).
NfkcChar(c) ==
    CASE c = SQUAREMM -> <<"m", "m">>
      [] c = ELLIPSIS -> <<".", ".", ".">>
      [] c = NBSP -> <<" ">>
      [] c = FULLWIDTH5 -> <<"5">>
      [] OTHER -> <<c>>

(***************************************************************************)
(* str methods                                                             *)
(***************************************************************************)
lower(s) == [i \in 1..Len(s) |-> LowerChar(s[i])]

\* s[:n]; a negative n counts from the end.
Take(s, n) ==
    SubSeq(s, 1, IF n >= Len(s) THEN Len(s) ELSE IF n >= 0 THEN n ELSE Len(s) + n)

\* s[n:] for n >= 0.
Drop(s, n) == SubSeq(s, n + 1, Len(s))

startswith(s, p) == Len(p) <= Len(s) /\ SubSeq(s, 1, Len(p)) = p

\* t in s
Contains(s, t) ==
    \/ t = <<>>
    \/ \E i \in 1..(Len(s) - Len(t) + 1) :
          s[i] = t[1] /\ SubSeq(s, i, i + Len(t) - 1) = t

\* s.lstrip(chars), s.rstrip(chars), s.strip(chars)
lstrip(s, chars) ==
    LET keep == {i \in 1..Len(s) : s[i] \notin chars}
    IN  IF keep = {} THEN <<>>
        ELSE SubSeq(s, CHOOSE i \in keep : \A j \in keep : i <= j, Len(s))
rstrip(s, chars) ==
    LET keep == {i \in 1..Len(s) : s[i] \notin chars}
    IN  IF keep = {} THEN <<>>
        ELSE SubSeq(s, 1, CHOOSE i \in keep : \A j \in keep : j <= i)
strip(s, chars) == rstrip(lstrip(s, chars), chars)

\* s.replace(c, t) for a single character c (computed by halves).
RECURSIVE replace(_, _, _)
replace(s, c, t) ==
    IF s = <<>> THEN <<>>
    ELSE IF Len(s) = 1 THEN (IF s[1] = c THEN t ELSE s)
    ELSE LET h == Len(s) \div 2
         IN  replace(SubSeq(s, 1, h), c, t) \o replace(SubSeq(s, h + 1, Len(s)), c, t)

\* unicodedata.normalize("NFKC", s) (computed by halves).
RECURSIVE normalize_NFKC(_)
normalize_NFKC(s) ==
    IF s = <<>> THEN <<>>
    ELSE IF Len(s) = 1 THEN NfkcChar(s[1])
    ELSE LET h == Len(s) \div 2
         IN  normalize_NFKC(SubSeq(s, 1, h)) \o normalize_NFKC(SubSeq(s, h + 1, Len(s)))

\* re.sub(r"\s+", " ", s): every run of white space becomes one space.
collapse_ws(s) ==
    LET mark == [i \in 1..Len(s) |->
                    IF s[i] \notin WhiteSpace THEN s[i]
                    ELSE IF i > 1 /\ s[i - 1] \in WhiteSpace THEN "" ELSE " "]
    IN  SelectSeq(mark, LAMBDA c : c # "")

(***************************************************************************)
(* _normalize_korean_bullets                                               *)
(***************************************************************************)
\* _HANGUL_RX.search(s)
_HANGUL_RX(s) == \E i \in 1..Len(s) : s[i] \in HangulSet

\* The alternatives of _UNIT_RX, lower case (the regex is case-insensitive).
UNITS ==
    { <<"g","h","z">>, <<"m","h","z">>, <<"k","h","z">>, <<"g","b">>, <<"m","b">>,
      <<"t","b">>, <<"w">>, <<"v">>, <<"a">>, <<"m","m">>, <<"c","m">>,
      <<"i","n","c","h">>, <<"g","b","i","t">>, <<"g","b","e">>,
      <<"p","c","i","e">>, <<"u","s","b">>, <<"s","a","t","a">>,
      <<"n","v","m","e">>, <<"d","d","r">>, <<"r","d","i","m","m">>,
      <<"u","d","i","m","m">>, <<"e","c","c">>, <<"w","i","f","i">>, <<"b","t">>,
      <<"p","o","e">> }

\* _UNIT_RX.search(s): a unit between two word boundaries.
_UNIT_RX(s) ==
    \E u \in UNITS : \E i \in 1..(Len(s) - Len(u) + 1) :
        /\ lower(SubSeq(s, i, i + Len(u) - 1)) = u
        /\ (i = 1 \/ ~IsWord(s[i - 1]))
        /\ (i + Len(u) - 1 = Len(s) \/ ~IsWord(s[i + Len(u)]))

\* re.search(r"\d", s)
HasDigit(s) == \E i \in 1..Len(s) : s[i] \in Digits

\* Variant of PrefixFix: line 258 tests for "-" instead of "- ".
PrefixFix_DashOnly(s) ==
    LET s1 == IF s # <<>> /\ s[1] \in {"-", BULLET, "*"}
              THEN strip(lstrip(s, {BULLET, "*", " "}), WhiteSpace)
              ELSE s
    IN  IF startswith(s1, <<"-">>) THEN s1 ELSE <<"-", " ">> \o s1

\* Lines 256-259: the prefix repair.
PrefixFix(s) ==
    LET s1 == IF s # <<>> /\ s[1] \in {"-", BULLET, "*"}
              THEN strip(lstrip(s, {BULLET, "*", " "}), WhiteSpace)
              ELSE s
    IN  IF startswith(s1, <<"-", " ">>) THEN s1 ELSE <<"-", " ">> \o s1

\* Lines 262-266: canonical form, white space, decoration, trailing punctuation.
Cleanup(s) ==
    LET s1 == normalize_NFKC(s)
        s2 == collapse_ws(s1)
        s3 == replace(replace(replace(s2, BULLET, <<>>), ENDASH, <<"-">>), EMDASH, <<"-">>)
        s4 == strip(rstrip(s3, {"\"", "'", MIDDOT, BULLET, "*"}), WhiteSpace)
    IN  strip(rstrip(s4, {IDEOCOMMA, ",", ELLIPSIS}), WhiteSpace)

\* Variant of LengthCut: the slice keeps one character too many.
LengthCut_OneMore(s, n) ==
    IF Len(s) > n THEN rstrip(Take(s, n + 1), WhiteSpace) ELSE s

\* Lines 269-270: the length cut.
LengthCut(s, n) ==
    IF Len(s) > n THEN rstrip(Take(s, n), WhiteSpace) ELSE s

\* Variant of Admitted: the unit pattern without its word boundaries.
Admitted_UnitAnywhere(s) ==
    \/ _HANGUL_RX(s) \/ HasDigit(s)
    \/ \E u \in UNITS : Contains(lower(s), u)

\* Lines 273-276: the admission filter.
Admitted(s) == _HANGUL_RX(s) \/ HasDigit(s) \/ _UNIT_RX(s)

\* The value of s at line 278, for one raw item that is not blank.
Canonical(raw, n) == LengthCut(Cleanup(PrefixFix(strip(raw, WhiteSpace))), n)

\* Variant of NormalizeFrom: line 278 keeps the case (key = s).
RECURSIVE NormalizeFrom_CaseSensitive(_, _, _, _, _)
NormalizeFrom_CaseSensitive(its, i, n, acc, seen) ==
    IF i > Len(its) THEN acc
    ELSE LET s == Canonical(its[i], n)
         IN  IF strip(its[i], WhiteSpace) = <<>> \/ ~Admitted(s) \/ s \in seen
             THEN NormalizeFrom_CaseSensitive(its, i + 1, n, acc, seen)
             ELSE NormalizeFrom_CaseSensitive(its, i + 1, n, Append(acc, s), seen \cup {s})

\* The loop of lines 251-282 over the items from index i on.
\* Variant of NormalizeFrom: line 282 puts the item at the front of out.
RECURSIVE NormalizeFrom_Prepend(_, _, _, _, _)
NormalizeFrom_Prepend(its, i, n, acc, seen) ==
    IF i > Len(its) THEN acc
    ELSE LET s == Canonical(its[i], n)
         IN  IF strip(its[i], WhiteSpace) = <<>> \/ ~Admitted(s) \/ lower(s) \in seen
             THEN NormalizeFrom_Prepend(its, i + 1, n, acc, seen)
             ELSE NormalizeFrom_Prepend(its, i + 1, n, <<s>> \o acc, seen \cup {lower(s)})

RECURSIVE NormalizeFrom(_, _, _, _, _)
NormalizeFrom(its, i, n, acc, seen) ==
    IF i > Len(its) THEN acc
    ELSE LET s == Canonical(its[i], n)
         IN  IF strip(its[i], WhiteSpace) = <<>> \/ ~Admitted(s) \/ lower(s) \in seen
             THEN NormalizeFrom(its, i + 1, n, acc, seen)
             ELSE NormalizeFrom(its, i + 1, n, Append(acc, s), seen \cup {lower(s)})

_normalize_korean_bullets(its, n) == NormalizeFrom(its, 1, n, <<>>, {})

(***************************************************************************)
(* _truncate, str.splitlines                                               *)
(***************************************************************************)
\* Variant of _truncate: the slice keeps one character too many.
_truncate_OneMore(s, n) ==
    Take(replace(strip(s, WhiteSpace), "\n", <<" ">>), IF n > 0 THEN n + 1 ELSE 0)

\* Variant of _truncate: the text is cut without being stripped.
_truncate_NoStrip(s, n) ==
    Take(replace(s, "\n", <<" ">>), IF n > 0 THEN n ELSE 0)

\* Variant of _truncate: the line feeds are kept.
_truncate_KeepNewlines(s, n) ==
    Take(strip(s, WhiteSpace), IF n > 0 THEN n ELSE 0)

\* Line 200: strip, line feeds to spaces, the first max(0, n) characters.
_truncate(s, n) ==
    Take(replace(strip(s, WhiteSpace), "\n", <<" ">>), IF n > 0 THEN n ELSE 0)

\* str.splitlines(): a break is "\n", "\r" or "\r\n"; a break at the end of the
\* text opens no further line.
splitlines(s) ==
    LET \* the index of the last character of each break
        ends == {i \in 1..Len(s) :
                    \/ s[i] = "\n"
                    \/ s[i] = "\r" /\ ~(i < Len(s) /\ s[i + 1] = "\n")}
        nth(n) == CHOOSE e \in ends : Cardinality({f \in ends : f <= e}) = n
        first(e) == IF s[e] = "\n" /\ e > 1 /\ s[e - 1] = "\r" THEN e - 1 ELSE e
        from(n) == IF n = 1 THEN 1 ELSE nth(n - 1) + 1
        count == Cardinality(ends)
        whole == [n \in 1..count |-> SubSeq(s, from(n), first(nth(n)) - 1)]
        rest == SubSeq(s, from(count + 1), Len(s))
    IN  IF rest = <<>> THEN whole ELSE Append(whole, rest)

(***************************************************************************)
(* MODEL_RX and guess_title_from_pdf                                       *)
(***************************************************************************)
PLACEHOLDER == <<"U+C81C","U+D488","U+BA85">>     \* line 383

\* The classes of MODEL_RX (case-insensitive): [A-Z], [A-Z0-9], [A-Z0-9\-_/].
RxLetter == Letters
RxAlnum == Letters \cup Digits
RxCode == Letters \cup Digits \cup {"-", "_", "/"}

\* \b between s[p] and s[p + 1], for p in 0..Len(s).
WordBoundary(s, p) ==
    (p >= 1 /\ IsWord(s[p])) # (p < Len(s) /\ IsWord(s[p + 1]))

\* The last index of the longest run of characters of `class` that starts at
\* index `from` (from - 1 when the run is empty).
RunEnd(s, from, class) ==
    (CHOOSE j \in from..(Len(s) + 1) :
        /\ j = Len(s) + 1 \/ s[j] \notin class
        /\ \A k \in from..(j - 1) : s[k] \in class) - 1

\* The greatest member of a non-empty set of numbers, 0 for the empty set.
MaxOr0(S) == IF S = {} THEN 0 ELSE CHOOSE e \in S : \A f \in S : f <= e

\* [A-Z]{2,}[A-Z0-9\-_/]{1,}\b matched at index i: the index of the last
\* character of the match the backtracking finds (the longest), 0 for none.
Alt1End(s, i) ==
    IF i + 2 <= Len(s) /\ s[i] \in RxLetter /\ s[i + 1] \in RxLetter
    THEN MaxOr0({e \in (i + 2)..RunEnd(s, i + 2, RxCode) : WordBoundary(s, e)})
    ELSE 0

\* [A-Z0-9]{2,}\-[A-Z0-9\-_/]+\b matched at index i, likewise.
Alt2End(s, i) ==
    IF i + 3 <= Len(s) /\ s[i] \in RxAlnum /\ s[i + 1] \in RxAlnum
    THEN LET b == RunEnd(s, i, RxAlnum)
         IN  IF b + 2 <= Len(s) /\ s[b + 1] = "-"
             THEN MaxOr0({e \in (b + 2)..RunEnd(s, b + 2, RxCode) : WordBoundary(s, e)})
             ELSE 0
    ELSE 0

\* The match of the whole pattern at index i (the first alternative first).
MatchEnd(s, i) ==
    IF ~WordBoundary(s, i - 1) THEN 0
    ELSE LET e == Alt1End(s, i) IN IF e # 0 THEN e ELSE Alt2End(s, i)

\* MODEL_RX.search(s): group 1 of the leftmost match, <<>> when there is none
\* (a match has at least three characters).
MODEL_RX(s) ==
    LET starts == {i \in 1..Len(s) : MatchEnd(s, i) # 0}
    IN  IF starts = {} THEN <<>>
        ELSE LET i == CHOOSE j \in starts : \A k \in starts : j <= k
             IN  SubSeq(s, i, MatchEnd(s, i))

\* Lines 350-354: the metadata step; <<>> when neither value qualifies.
RECURSIVE MetaTitle(_)
MetaTitle(values) ==
    IF values = <<>> THEN <<>>
    ELSE LET v == strip(Head(values), WhiteSpace)
             m == MODEL_RX(v)
         IN  IF v # <<>> /\ 2 <= Len(v) /\ Len(v) <= 100
             THEN strip(IF m # <<>> THEN m ELSE v, WhiteSpace)
             ELSE MetaTitle(Tail(values))

\* Lines 360-369: the (size, text) pairs of the first two pages, size >= 8.
RECURSIVE CollectTops(_)
CollectTops(spans) ==
    IF spans = <<>> THEN <<>>
    ELSE LET sp == Head(spans)
             txt == strip(sp.text, WhiteSpace)
         IN  (IF sp.page <= 1 /\ txt # <<>> /\ sp.size >= 8
              THEN <<[size |-> sp.size, text |-> txt]>> ELSE <<>>)
             \o CollectTops(Tail(spans))

\* Line 371: the stable sort by size, largest first.
RECURSIVE SortTops(_)
SortTops(tops) ==
    IF tops = <<>> THEN <<>>
    ELSE LET i == CHOOSE j \in 1..Len(tops) :
                    /\ \A k \in 1..Len(tops) : tops[k].size <= tops[j].size
                    /\ \A k \in 1..(j - 1) : tops[k].size < tops[j].size
         IN  <<tops[i]>> \o SortTops(SubSeq(tops, 1, i - 1) \o SubSeq(tops, i + 1, Len(tops)))

\* Lines 372-374: group 1 of the first match among the spans, <<>> for none.
RECURSIVE FirstSpanMatch(_)
FirstSpanMatch(tops) ==
    IF tops = <<>> THEN <<>>
    ELSE LET m == MODEL_RX(Head(tops).text)
         IN  IF m # <<>> THEN strip(m, WhiteSpace) ELSE FirstSpanMatch(Tail(tops))

\* Lines 370-375: the font-span step; <<>> when there is no span.
SpanTitle(spans) ==
    LET tops == SortTops(CollectTops(spans))
        m == FirstSpanMatch(Take(tops, 50))
    IN  IF tops = <<>> THEN <<>>
        ELSE IF m # <<>> THEN m ELSE Take(tops[1].text, 80)

\* Lines 380-382: the first line that is not blank, stripped.
RECURSIVE FirstLine(_)
FirstLine(lines) ==
    IF lines = <<>> THEN <<>>
    ELSE IF strip(Head(lines), WhiteSpace) # <<>> THEN strip(Head(lines), WhiteSpace)
    ELSE FirstLine(Tail(lines))

\* Variant of TextTitle: the last return gives the (empty) stripped text back.
TextTitle_NoPlaceholder(txt) ==
    LET m2 == MODEL_RX(txt)
        s == FirstLine(splitlines(txt))
    IN  IF m2 # <<>> THEN Take(m2, 80) ELSE Take(s, 80)

\* Lines 378-383: the steps that read the raw text.
TextTitle(txt) ==
    LET m2 == MODEL_RX(txt)
        s == FirstLine(splitlines(txt))
    IN  IF m2 # <<>> THEN Take(m2, 80)
        ELSE IF s # <<>> THEN Take(s, 80)
        ELSE PLACEHOLDER

\* Variant of guess_title_raises: the second try block (lines 357, 376-377)
\* is missing, a failure while the spans are read leaves the function.
guess_title_raises_SpansUnguarded(doc) ==
    LET metaFails == ~doc.opens \/ ~doc.meta_ok
        spanFails == ~doc.opens \/ ~doc.spans_ok
        metaReturns == ~metaFails /\ MetaTitle(<<doc.title, doc.subject>>) # <<>>
    IN  ~metaReturns /\ spanFails

\* Whether guess_title_from_pdf leaves through an exception.  fitz.open, the
\* metadata read and the span read may raise; each sits in a try block whose
\* handler is `except Exception: pass` (lines 355-356, 376-377), and the steps
\* after them (lines 378-383) work on a str and raise nothing.
guess_title_raises(doc) ==
    LET metaFails == ~doc.opens \/ ~doc.meta_ok
        spanFails == ~doc.opens \/ ~doc.spans_ok
        metaCaught == TRUE
        spanCaught == TRUE
        metaReturns == ~metaFails /\ MetaTitle(<<doc.title, doc.subject>>) # <<>>
    IN  \/ metaFails /\ ~metaCaught
        \/ ~metaReturns /\ spanFails /\ ~spanCaught

\* Variant of guess_title_from_pdf: the pattern is looked for in the raw text
\* before the font spans are read.
guess_title_from_pdf_TextFirst(doc, txt) ==
    LET fromMeta == MetaTitle(<<doc.title, doc.subject>>)
        fromSpans == SpanTitle(doc.spans)
    IN  IF doc.opens /\ doc.meta_ok /\ fromMeta # <<>> THEN fromMeta
        ELSE IF MODEL_RX(txt) # <<>> THEN Take(MODEL_RX(txt), 80)
        ELSE IF doc.opens /\ doc.spans_ok /\ fromSpans # <<>> THEN fromSpans
        ELSE TextTitle(txt)

\* guess_title_from_pdf.  doc.opens: fitz.open succeeds; doc.meta_ok and
\* doc.spans_ok: reading the metadata, the spans raises nothing.  A step that
\* raises is left through its except clause.
guess_title_from_pdf(doc, txt) ==
    LET fromMeta == MetaTitle(<<doc.title, doc.subject>>)
        fromSpans == SpanTitle(doc.spans)
    IN  IF doc.opens /\ doc.meta_ok /\ fromMeta # <<>> THEN fromMeta
        ELSE IF doc.opens /\ doc.spans_ok /\ fromSpans # <<>> THEN fromSpans
        ELSE TextTitle(txt)

(***************************************************************************)
(* Harvesters and the category matcher                                     *)
(***************************************************************************)
FEATURE_MAX == 24
DESC_MAX_DEFAULT == 40
SUMMARY_MAX_DEFAULT == 200

REQUIRED_KEYS ==
    << <<"C","P","U">>, <<"G","P","U">>, <<"M","e","m","o","r","y">>, <<"S","t","o","r","a","g","e">>, <<"P","o","w","e","r">>, <<"I","/","O">>, <<"L","A","N">>,
       <<"D","i","m","e","n","s","i","o","n","s">>, <<"O","p","e","r","a","t","i","n","g"," ","T","e","m","p","e","r","a","t","u","r","e">> >>

\* KEY_ALIASES[i] lists the aliases of REQUIRED_KEYS[i].
KEY_ALIASES ==
    << << <<"C","P","U">>, <<"P","r","o","c","e","s","s","o","r">>, <<"U+D504","U+B85C","U+C138","U+C11C">> >>,
       << <<"G","P","U">>, <<"G","r","a","p","h","i","c","s">>, <<"U+ADF8","U+B798","U+D53D">>, <<"V","G","A">> >>,
       << <<"M","e","m","o","r","y">>, <<"R","A","M">>, <<"U+BA54","U+BAA8","U+B9AC">>, <<"D","R","A","M">>, <<"D","D","R">>, <<"R","D","I","M","M">>, <<"U","D","I","M","M">>,
          <<"E","C","C">> >>,
       << <<"S","t","o","r","a","g","e">>, <<"U+C2A4","U+D1A0","U+B9AC","U+C9C0">>, <<"S","S","D">>, <<"H","D","D">>, <<"N","V","M","e">>, <<"S","A","T","A">>, <<"M",".","2">>,
          <<"U",".","2">> >>,
       << <<"P","o","w","e","r">>, <<"P","S","U">>, <<"U+C804","U+C6D0">>, <<"A","C">>, <<"D","C">>, <<"A","d","a","p","t","e","r">>, <<"U+C5B4","U+B311","U+D130">>,
          <<"U+C804","U+B825">>, <<"U+C785","U+B825">> >>,
       << <<"I","/","O">>, <<"I","O">>, <<"I","n","t","e","r","f","a","c","e">>, <<"U+C785","U+CD9C","U+B825">>, <<"U+D3EC","U+D2B8">>, <<"U","S","B">>, <<"P","C","I","e">>,
          <<"H","D","M","I">>, <<"D","P">>, <<"V","G","A">>, <<"C","O","M">>, <<"R","S","-","2","3","2">>, <<"R","S","-","4","8","5">> >>,
       << <<"L","A","N">>, <<"E","t","h","e","r","n","e","t">>, <<"G","b","E">>, <<"1","0","G","b","E">>, <<"2",".","5","G","b","E">>, <<"R","J","-","4","5">>,
          <<"U+B124","U+D2B8","U+C6CC","U+D06C">> >>,
       << <<"D","i","m","e","n","s","i","o","n","s">>, <<"U+D06C","U+AE30">>, <<"U+ADDC","U+ACA9">>, <<"U+C678","U+D615">>, <<"U+CE58","U+C218">>, <<"S","i","z","e">>,
          <<"F","o","r","m"," ","F","a","c","t","o","r">>, <<"W"," ","x"," ","D"," ","x"," ","H">>, <<"W","x","D","x","H">>, <<"m","m">>, <<"c","m">>, <<"i","n","c","h">> >>,
       << <<"O","p","e","r","a","t","i","n","g"," ","T","e","m","p","e","r","a","t","u","r","e">>, <<"O","p","e","r","a","t","i","n","g"," ","T","e","m","p">>, <<"U+B3D9","U+C791"," ","U+C628","U+B3C4">>,
          <<"U+C791","U+B3D9"," ","U+C628","U+B3C4">>, <<"U+C628","U+B3C4">>, <<"T","e","m","p","e","r","a","t","u","r","e"," ","r","a","n","g","e">>, <<"O","p","e","r","a","t","i","n","g"," ","r","a","n","g","e">> >> >>

BULLET_MARKERS ==
    {BULLET, BLACKCIRCLE, "-", SMALLSQUARE, TRIBULLET, ENDASH, EMDASH, MIDDOT, "*"}

\* The index of the first occurrence of t in s, 0 when there is none.
Find(s, t) ==
    LET at == {i \in 1..(Len(s) - Len(t) + 1) :
                    s[i] = t[1] /\ SubSeq(s, i, i + Len(t) - 1) = t}
    IN  IF at = {} THEN 0 ELSE CHOOSE i \in at : \A j \in at : i <= j

\* Variant of Separator: " - " is looked for before the colon.
Separator_DashFirst(s) ==
    IF Find(s, <<" ", "-", " ">>) # 0 THEN <<" ", "-", " ">>
    ELSE IF Find(s, <<":">>) # 0 THEN <<":">>
    ELSE <<>>

\* Lines 390-392: the separator a stripped line is split at, <<>> for none.
Separator(s) ==
    IF Find(s, <<":">>) # 0 THEN <<":">>
    ELSE IF Find(s, <<" ", "-", " ">>) # 0 THEN <<" ", "-", " ">>
    ELSE <<>>

\* Lines 387-396: the loop of extract_kv_candidates from line i on.
RECURSIVE KvFrom(_, _, _, _)
KvFrom(lines, i, max_items, acc) ==
    IF i > Len(lines) THEN acc
    ELSE LET s == strip(lines[i], WhiteSpace)
             sep == Separator(s)
         IN  IF s = <<>> \/ Len(s) > 300 \/ sep = <<>>
             THEN KvFrom(lines, i + 1, max_items, acc)
             ELSE LET at == Find(s, sep)
                      k == strip(SubSeq(s, 1, at - 1), WhiteSpace)
                      v == strip(Drop(s, at + Len(sep) - 1), WhiteSpace)
                      acc1 == IF 1 <= Len(k) /\ Len(k) <= 60 /\ v # <<>>
                              THEN Append(acc, [k |-> k, v |-> v]) ELSE acc
                  IN  IF Len(acc1) >= max_items THEN acc1
                      ELSE KvFrom(lines, i + 1, max_items, acc1)

extract_kv_candidates(txt, max_items) == KvFrom(splitlines(txt), 1, max_items, <<>>)

\* Lines 401-407: the loop of extract_bullets from line i on.
RECURSIVE BulletsFrom(_, _, _, _)
BulletsFrom(lines, i, max_items, acc) ==
    IF i > Len(lines) THEN acc
    ELSE LET s == strip(lines[i], WhiteSpace)
         IN  IF s = <<>> THEN BulletsFrom(lines, i + 1, max_items, acc)
             ELSE LET marked == \/ s[1] \in BULLET_MARKERS
                                \/ \E m \in BULLET_MARKERS : startswith(s, <<m, " ">>)
                      s2 == strip(lstrip(s, BULLET_MARKERS),
                                  {" ", "-", ENDASH, EMDASH, MIDDOT, ":", "*"})
                      acc1 == IF marked /\ s2 # <<>> THEN Append(acc, s2) ELSE acc
                  IN  IF Len(acc1) >= max_items THEN acc1
                      ELSE BulletsFrom(lines, i + 1, max_items, acc1)

extract_bullets(txt, max_items) == BulletsFrom(splitlines(txt), 1, max_items, <<>>)

\* KEY_ALIASES.get(alias_key, [alias_key])
AliasesOf(alias_key) ==
    IF \E i \in 1..Len(REQUIRED_KEYS) : REQUIRED_KEYS[i] = alias_key
    THEN KEY_ALIASES[CHOOSE i \in 1..Len(REQUIRED_KEYS) : REQUIRED_KEYS[i] = alias_key]
    ELSE <<alias_key>>

_matches_key(alias_key, k, v) ==
    LET kk == lower(k)
        vv == lower(v)
        toks == AliasesOf(alias_key)
    IN  \E a \in 1..Len(toks) :
            LET t == lower(toks[a])
            IN  Contains(kk, t) \/ Contains(vv, t)

(***************************************************************************)
(* rules_build_fields                                                      *)
(***************************************************************************)
\* f"- {k}: {v}"
Labelled(k, v) == <<"-", " ">> \o k \o <<":", " ">> \o v

InList(s, list) == \E i \in 1..Len(list) : list[i] = s

\* Variant of CategoryPick: the test of line 442 is forgotten, the category
\* takes the first candidate no category has taken.
CategoryPick_FirstUnused(key, cands, taken) ==
    LET hits == {i \in 1..Len(cands) : i \notin taken}
    IN  IF hits = {} THEN 0 ELSE CHOOSE i \in hits : \A j \in hits : i <= j

\* Variant of CategoryPick: the category takes the last of its candidates.
CategoryPick_LastMatch(key, cands, taken) ==
    LET hits == {i \in 1..Len(cands) :
                    i \notin taken /\ _matches_key(key, cands[i].k, cands[i].v)}
    IN  IF hits = {} THEN 0 ELSE CHOOSE i \in hits : \A j \in hits : i >= j

\* Lines 440-445: the index of the candidate the category takes, 0 for none.
CategoryPick(key, cands, taken) ==
    LET hits == {i \in 1..Len(cands) :
                    i \notin taken /\ _matches_key(key, cands[i].k, cands[i].v)}
    IN  IF hits = {} THEN 0 ELSE CHOOSE i \in hits : \A j \in hits : i <= j

\* Lines 450-456: the loop over the candidates from index i on; `full` tells
\* that the loop left through the return of line 456.
RECURSIVE GenericFrom(_, _, _, _, _)
GenericFrom(cands, i, taken, fs, cap) ==
    IF i > Len(cands) THEN [feats |-> fs, full |-> FALSE]
    ELSE IF i \in taken THEN GenericFrom(cands, i + 1, taken, fs, cap)
    ELSE LET pair == Labelled(cands[i].k, cands[i].v)
             fs1 == IF InList(pair, fs) THEN fs ELSE Append(fs, pair)
         IN  IF Len(fs1) >= cap THEN [feats |-> fs1, full |-> TRUE]
             ELSE GenericFrom(cands, i + 1, taken, fs1, cap)

\* Variant of BulletFillFrom: a harvested bullet goes to the front of the list.
RECURSIVE BulletFillFrom_Front(_, _, _, _)
BulletFillFrom_Front(bs, i, fs, cap) ==
    IF i > Len(bs) THEN fs
    ELSE LET bl == IF startswith(bs[i], <<"-">>) THEN bs[i] ELSE <<"-", " ">> \o bs[i]
             fs1 == IF InList(bl, fs) THEN fs ELSE <<bl>> \o fs
         IN  IF Len(fs1) >= cap THEN fs1 ELSE BulletFillFrom_Front(bs, i + 1, fs1, cap)

\* Lines 459-463: the loop over the harvested bullets from index i on.
RECURSIVE BulletFillFrom(_, _, _, _)
BulletFillFrom(bs, i, fs, cap) ==
    IF i > Len(bs) THEN fs
    ELSE LET bl == IF startswith(bs[i], <<"-">>) THEN bs[i] ELSE <<"-", " ">> \o bs[i]
             fs1 == IF InList(bl, fs) THEN fs ELSE Append(fs, bl)
         IN  IF Len(fs1) >= cap THEN fs1 ELSE BulletFillFrom(bs, i + 1, fs1, cap)

\* Variant of Finish: the slice [:limit] is forgotten.
Finish_NoCap(fs, cap) == _normalize_korean_bullets(fs, 64)

\* _normalize_korean_bullets(feats, 64)[:limit]
Finish(fs, cap) == Take(_normalize_korean_bullets(fs, 64), cap)

\* Lines 439-447: the loop over REQUIRED_KEYS from index c on; `full` tells
\* that the loop left through the return of line 447.
\* The turn of the category at c, lines 440-445: what feats and used are
\* after it.
CategoryTurn(cands, c, taken, fs) ==
    LET i == CategoryPick(REQUIRED_KEYS[c], cands, taken)
    IN  IF i = 0 THEN [feats |-> fs, used |-> taken]
        ELSE [feats |-> Append(fs, Labelled(REQUIRED_KEYS[c], cands[i].v)),
              used |-> taken \cup {i}]

\* The element of a set of one element; { e(x) : x \in {v} } is e with x
\* standing for the value of v.
Only(S) == CHOOSE x \in S : TRUE

RECURSIVE CategoryFrom(_, _, _, _, _)
CategoryFrom(cands, c, taken, fs, cap) ==
    IF c > Len(REQUIRED_KEYS) THEN [feats |-> fs, used |-> taken, full |-> FALSE]
    ELSE Only({ IF Len(t.feats) >= cap
                THEN [feats |-> t.feats, used |-> t.used, full |-> TRUE]
                ELSE CategoryFrom(cands, c + 1, t.used, t.feats, cap)
                : t \in {CategoryTurn(cands, c, taken, fs)} })

\* Lines 432-466: the features rules_build_fields returns for the harvested
\* candidates and bullets.
FeaturesOf(kvs, bs, cap) ==
    Only({ IF c.full THEN Finish(c.feats, cap)
           ELSE Only({ IF g.full THEN Finish(g.feats, cap)
                       ELSE Only({ Finish(fs, cap)
                                   : fs \in {BulletFillFrom(bs, 1, g.feats, cap)} })
                       : g \in {GenericFrom(kvs, 1, c.used, c.feats, cap)} })
           : c \in {CategoryFrom(kvs, 1, {}, <<>>, cap)} })

\* rules_build_fields, from call to return.
rules_build_fields(doc, txt, dmax, smax, cap) ==
    [name |-> guess_title_from_pdf(doc, txt),
     desc |-> _truncate(txt, dmax),
     summary |-> _truncate(txt, smax),
     features |-> Only({ FeaturesOf(kvs, bs, cap)
                         : kvs \in {extract_kv_candidates(txt, 500)},
                           bs \in {extract_bullets(txt, 300)} })]

(***************************************************************************)
(* An invocation of rules_build_fields as a value: its arguments, its      *)
(* locals, where it is, what it returned                                   *)
(***************************************************************************)
\* The invocation at its call, with the default lengths.
Frame(doc, txt, cap) ==
    [pc |-> "rules", pdf |-> doc, text |-> txt,
     desc_max |-> DESC_MAX_DEFAULT, summary_max |-> SUMMARY_MAX_DEFAULT, limit |-> cap,
     name |-> <<>>, desc |-> <<>>, summary |-> <<>>, kv |-> <<>>, bullets |-> <<>>,
     feats |-> <<>>, used |-> {}, cat |-> 1, features |-> <<>>]

\* Variant of FrameStep: the category pass works on the set `used` of the
\* invocation beside it, as if `used` were a module-level set.
FrameStep_SharedUsed(fr) ==
    IF fr.pc = "rules"
    THEN [fr EXCEPT !.name = guess_title_from_pdf(fr.pdf, fr.text),
                    !.desc = _truncate(fr.text, fr.desc_max),
                    !.summary = _truncate(fr.text, fr.summary_max),
                    !.kv = extract_kv_candidates(fr.text, 500),
                    !.bullets = extract_bullets(fr.text, 300),
                    !.feats = <<>>, !.used = {}, !.cat = 1, !.pc = "categories"]
    ELSE IF fr.pc = "categories"
    THEN LET t == CategoryTurn(fr.kv, fr.cat, used, fr.feats)
             last == fr.cat = Len(REQUIRED_KEYS)
         IN  IF Len(t.feats) >= fr.limit
             THEN [fr EXCEPT !.feats = t.feats, !.used = t.used,
                             !.features = Finish(t.feats, fr.limit), !.pc = "done"]
             ELSE [fr EXCEPT !.feats = t.feats, !.used = t.used,
                             !.cat = IF last THEN fr.cat ELSE fr.cat + 1,
                             !.pc = IF last THEN "generic" ELSE "categories"]
    ELSE IF fr.pc = "generic"
    THEN LET r == GenericFrom(fr.kv, 1, fr.used, fr.feats, fr.limit)
         IN  IF r.full
             THEN [fr EXCEPT !.feats = r.feats,
                             !.features = Finish(r.feats, fr.limit), !.pc = "done"]
             ELSE [fr EXCEPT !.feats = r.feats, !.pc = "bullets"]
    ELSE LET fs == BulletFillFrom(fr.bullets, 1, fr.feats, fr.limit)
         IN  [fr EXCEPT !.feats = fs, !.features = Finish(fs, fr.limit), !.pc = "done"]

\* One step of the invocation: lines 428-436, one turn of the loop of lines
\* 439-447, the loop of lines 450-456, or lines 459-466.
FrameStep(fr) ==
    IF fr.pc = "rules"
    THEN [fr EXCEPT !.name = guess_title_from_pdf(fr.pdf, fr.text),
                    !.desc = _truncate(fr.text, fr.desc_max),
                    !.summary = _truncate(fr.text, fr.summary_max),
                    !.kv = extract_kv_candidates(fr.text, 500),
                    !.bullets = extract_bullets(fr.text, 300),
                    !.feats = <<>>, !.used = {}, !.cat = 1, !.pc = "categories"]
    ELSE IF fr.pc = "categories"
    THEN LET t == CategoryTurn(fr.kv, fr.cat, fr.used, fr.feats)
             last == fr.cat = Len(REQUIRED_KEYS)
         IN  IF Len(t.feats) >= fr.limit
             THEN [fr EXCEPT !.feats = t.feats, !.used = t.used,
                             !.features = Finish(t.feats, fr.limit), !.pc = "done"]
             ELSE [fr EXCEPT !.feats = t.feats, !.used = t.used,
                             !.cat = IF last THEN fr.cat ELSE fr.cat + 1,
                             !.pc = IF last THEN "generic" ELSE "categories"]
    ELSE IF fr.pc = "generic"
    THEN LET r == GenericFrom(fr.kv, 1, fr.used, fr.feats, fr.limit)
         IN  IF r.full
             THEN [fr EXCEPT !.feats = r.feats,
                             !.features = Finish(r.feats, fr.limit), !.pc = "done"]
             ELSE [fr EXCEPT !.feats = r.feats, !.pc = "bullets"]
    ELSE LET fs == BulletFillFrom(fr.bullets, 1, fr.feats, fr.limit)
         IN  [fr EXCEPT !.feats = fs, !.features = Finish(fs, fr.limit), !.pc = "done"]

(***************************************************************************)
(* Session state and undo                                                  *)
(* None is the empty tuple, any other optional value v is <<v>>.           *)
(***************************************************************************)
None == <<>>

\* "\n".join(lines)
RECURSIVE Join(_)
Join(lines) ==
    IF lines = <<>> THEN <<>>
    ELSE IF Len(lines) = 1 THEN lines[1]
    ELSE lines[1] \o <<"\n">> \o Join(Tail(lines))

\* Lines 69-106: the fields as init_session_state leaves them.
init_session_state(ready) ==
    [var_name |-> <<>>, var_desc |-> <<>>, var_summary |-> <<>>, var_feats |-> <<>>,
     last_thumb_path |-> None, undo_stack |-> <<>>, initial_state |-> None,
     pdf_name |-> None, raw_text |-> <<>>, openai_ready |-> ready,
     desc_max |-> DESC_MAX_DEFAULT, summary_max |-> SUMMARY_MAX_DEFAULT]

get_state(ss) ==
    <<ss.var_name, ss.var_desc, ss.var_summary, ss.var_feats, ss.last_thumb_path>>

set_state(ss, state) ==
    [ss EXCEPT !.var_name = state[1], !.var_desc = state[2], !.var_summary = state[3],
               !.var_feats = state[4], !.last_thumb_path = state[5]]

push_undo(ss) == [ss EXCEPT !.undo_stack = Append(@, get_state(ss))]

\* Variant of undo_once: the oldest snapshot is taken (pop(0)).
undo_once_Oldest(ss) ==
    IF ss.undo_stack = <<>> THEN ss
    ELSE set_state([ss EXCEPT !.undo_stack = Tail(@)], ss.undo_stack[1])

undo_once(ss) ==
    IF ss.undo_stack = <<>> THEN ss
    ELSE set_state([ss EXCEPT !.undo_stack = SubSeq(@, 1, Len(@) - 1)],
                   ss.undo_stack[Len(ss.undo_stack)])

\* Variant of undo_to_initial: the stack is cleared before the test of line 633.
undo_to_initial_ClearsFirst(ss) ==
    IF ss.initial_state = None THEN [ss EXCEPT !.undo_stack = <<>>]
    ELSE [set_state(ss, ss.initial_state[1]) EXCEPT !.undo_stack = <<>>]

\* What undo_once returns: False at line 625, True at line 629.
undo_once_returns(ss) == ss.undo_stack # <<>>

\* What undo_to_initial returns: False at line 635, True at line 639.
undo_to_initial_returns(ss) == ss.initial_state # None

\* Variant of undo_to_initial: the stack is not cleared (line 637 is missing).
undo_to_initial_KeepsStack(ss) ==
    IF ss.initial_state = None THEN ss
    ELSE set_state(ss, ss.initial_state[1])

undo_to_initial(ss) ==
    IF ss.initial_state = None THEN ss
    ELSE [set_state(ss, ss.initial_state[1]) EXCEPT !.undo_stack = <<>>]

(***************************************************************************)
(* Bounds and inputs of the normalizer runs                                *)
(***************************************************************************)
MaxItemLen == 3     \* longest raw item enumerated character by character
MaxPairLen == 2     \* longest item of an enumerated two-item list
SmallMaxLen == 3    \* a small max_len, so that the cut meets every short item
DefaultMaxLen == 64

NormAlphabet ==
    {"-", " ", "'", ",", "5", "w", "W", "x", BULLET, SQUAREMM, "U+D55C"}
PairAlphabet == {"w", "W", "x", "5"}

\* Items with the characters the enumeration leaves out.
OtherItems ==
    { <<"*","5">>, <<"*"," ","-"," ","5">>, <<"U+2013","5">>, <<"5"," ","U+2014"," ","w">>, <<"U+FF15">>, <<"5","U+2026">>, <<"5","U+00B7">>, <<"5","U+3001">>,
      <<"w","\"","x","\"">>, <<"a"," ","U+2022"," ","5">>, <<"S","l","e","e","k"," ","M","o","d","e","r","n"," ","D","e","s","i","g","n">>, <<"\t","5","\n">> }

RECURSIVE StringsUpTo(_, _)
StringsUpTo(alphabet, n) ==
    IF n = 0 THEN {<<>>}
    ELSE LET shorter == StringsUpTo(alphabet, n - 1)
         IN  shorter \cup {Append(s, c) : s \in shorter, c \in alphabet}

Rep(c, n) == [i \in 1..n |-> c]

\* Items around the default cut: 59..61 letters, then a short tail.
LongItems ==
    {<<"5">> \o Rep("x", k) \o t :
        k \in 59..61, t \in StringsUpTo({" ", "'", ",", "w", SQUAREMM}, 3)}

\* The calls: every short item alone under both cuts, the long items and the
\* two-item lists under the default cut.
NormInputs ==
    {<<<<s>>, n>> : s \in StringsUpTo(NormAlphabet, MaxItemLen),
                    n \in {SmallMaxLen, DefaultMaxLen}}
    \cup {<<<<s>>, DefaultMaxLen>> : s \in LongItems \cup OtherItems}
    \cup {<<<<s, t>>, DefaultMaxLen>> : s, t \in StringsUpTo(PairAlphabet, MaxPairLen)}

(***************************************************************************)
(* Bounds and inputs of the title runs                                     *)
(***************************************************************************)
MaxSpans == 2       \* most font spans of a document
LongRun == 120      \* length of the long runs of characters (beyond 100)

NoPdf ==
    [opens |-> FALSE, meta_ok |-> TRUE, spans_ok |-> TRUE,
     title |-> <<>>, subject |-> <<>>, spans |-> <<>>]

MetaStrings ==
    { <<>>, <<"X">>, <<" "," ">>, <<" ","A","1"," ","B","2"," ">>, <<"E","d","g","e"," ","S","e","r","v","e","r">>, <<"N","X","-","2","0","0"," ","d","a","t","a","s","h","e","e","t">>,
      <<"U+C81C","U+D488"," ","5">>, Rep("A", 100), Rep("A", 101) }

SpanMenu ==
    { [page |-> 0, size |-> 12, text |-> <<" ">>],
      [page |-> 0, size |-> 7, text |-> <<"R","S","-","4","8","5">>],
      [page |-> 2, size |-> 12, text |-> <<"R","S","-","4","8","5">>],
      [page |-> 0, size |-> 8, text |-> <<" ","A","1"," ","B","2"," ">>],
      [page |-> 1, size |-> 12, text |-> <<"A","1"," ","B","2">>],
      [page |-> 1, size |-> 8, text |-> <<"E","d","g","e"," ","S","e","r","v","e","r">>],
      [page |-> 0, size |-> 9, text |-> <<"N","X","-","2","0","0","/","A","_","b">>],
      [page |-> 1, size |-> 9, text |-> Rep("A", LongRun)],
      [page |-> 0, size |-> 12, text |-> Rep("5", LongRun)] }

RECURSIVE ListsUpTo(_, _)
ListsUpTo(S, n) ==
    IF n = 0 THEN {<<>>}
    ELSE LET shorter == ListsUpTo(S, n - 1)
         IN  shorter \cup {Append(l, x) : l \in shorter, x \in S}

\* The spans come in page order.
SpanLists ==
    {l \in ListsUpTo(SpanMenu, MaxSpans) :
        \A i, j \in 1..Len(l) : i < j => l[i].page <= l[j].page}

TitleTexts ==
    { <<>>, <<" ","\n"," ">>, <<"\n"," ","A","1"," ","B","2"," ","\n","z","z">>, <<"5"," ","N","X","-","2","0","0","/","A","_","b"," ","x">>, Rep("A", LongRun),
      <<" ">> \o Rep("5", LongRun) }

TitlePdfs ==
    {NoPdf}
    \cup [opens : {TRUE}, meta_ok : BOOLEAN, spans_ok : {FALSE},
          title : MetaStrings, subject : MetaStrings, spans : {<<>>}]
    \cup [opens : {TRUE}, meta_ok : {FALSE}, spans_ok : BOOLEAN,
          title : {<<>>}, subject : {<<>>}, spans : SpanLists]

(***************************************************************************)
(* Bounds and inputs of the rules_build_fields runs                        *)
(***************************************************************************)
MaxLines == 2       \* most lines of a text
MaxCap == 2         \* the small feature caps are 0..MaxCap

LineMenu ==
    { <<" ">>,
      <<"C","P","U",":"," ","I","n","t","e","l"," ","X","e","o","n">>,
      <<"C","P","U",":"," ","X","e","o","n"," ","6","3","3","8">>,
      <<"G","P","U",":"," ","R","T","X"," ","4","0","9","0">>,
      <<"G","r","a","p","h","i","c","s"," ","p","r","o","c","e","s","s","o","r",":"," ","R","T","X"," ","4","0","9","0">>,
      <<"D","i","m","e","n","s","i","o","n","s",":"," ","1","0","0"," ","m","m">>,
      <<"S","t","o","r","a","g","e",":"," ","2","T","B"," ","S","S","D">>,
      <<"s","t","o","r","a","g","e",":"," ","2","t","b"," ","s","s","d">>,
      <<"W","e","i","g","h","t"," ","-"," ","5"," ","k","g">>,
      <<"-"," ","2","x"," ","U","S","B","\t","3",".","0">>,
      <<"U+2022"," ","S","l","e","e","k"," ","M","o","d","e","r","n"," ","D","e","s","i","g","n">>,
      <<" "," ","O","p","e","r","a","t","i","n","g"," ","T","e","m","p","e","r","a","t","u","r","e",":"," ","-","1","0","C"," ","~"," ","5","0","C",","," ","h","u","m","i","d","i","t","y"," ","1","0"," ","~"," ","9","0"," ","%"," ","(","n","o","n","-","c","o","n","d","e","n","s","i","n","g",")"," ">> }

Texts == {Join(l) : l \in ListsUpTo(LineMenu, MaxLines)}

MetaPdf ==
    [opens |-> TRUE, meta_ok |-> TRUE, spans_ok |-> TRUE,
     title |-> <<>>, subject |-> <<"N","X","-","2","0","0"," ","d","a","t","a","s","h","e","e","t">>,
     spans |-> <<[page |-> 0, size |-> 12, text |-> <<"E","d","g","e"," ","S","e","r","v","e","r">>]>>]

\* The calls, as <<document, desc_max, summary_max, limit>>.  With the cap of
\* the application (line 782): the ends of the ranges its settings panel
\* allows (lines 692-706) and the defaults.  With the defaults: the small caps.
RuleCalls ==
    { <<NoPdf, 10, 50, FEATURE_MAX>>,
      <<MetaPdf, DESC_MAX_DEFAULT, SUMMARY_MAX_DEFAULT, FEATURE_MAX>>,
      <<NoPdf, 200, 600, FEATURE_MAX>> }
    \cup {<<NoPdf, DESC_MAX_DEFAULT, SUMMARY_MAX_DEFAULT, c>> : c \in 0..MaxCap}

(***************************************************************************)
(* Inputs of the harvester runs                                            *)
(***************************************************************************)
\* Lines with and without a separator, a key, a value, a marker; lines
\* around the limits of lines 389 and 394.
HarvestLines ==
    { <<"C","P","U",":"," ","X","e","o","n"," ","6","3","3","8">>,
      <<"W","e","i","g","h","t"," ","-"," ","5"," ","k","g">>,
      <<"a"," ","-"," ","b",":"," ","c"," ","-"," ","d">>,
      <<":"," ","x"," ","-"," ","y">>,
      <<"P","o","w","e","r",":">>,
      <<"n","o"," ","s","e","p","a","r","a","t","o","r">>,
      <<" "," ">>,
      Rep("k", 60) \o <<" ",":"," ","v">>,
      Rep("k", 61) \o <<":"," ","v">>,
      <<"k",":">> \o Rep("v", 298),
      <<"k",":">> \o Rep("v", 299),
      <<"-"," ","2","x"," ","U","S","B"," ","3",".","0">>,
      <<"-","x">>,
      <<"-"," ",":"," ","*">>,
      <<BULLET>> \o <<" ","S","l","e","e","k",":"," ","f","a","s","t"," ","-">>,
      <<"*"," ","-"," ","n","e","s","t","e","d">>,
      <<"-"," ">> \o <<BULLET>> \o <<" ","4"," ","p","o","r","t","s">> }

HarvestTexts == {Join(l) : l \in ListsUpTo(HarvestLines, MaxLines)}

\* The caps: the small ones, and the defaults of lines 385 and 399.
HarvestCaps == (0..MaxCap) \cup {300, 500}

(***************************************************************************)
(* Inputs of the runs of two invocations side by side                      *)
(***************************************************************************)
BesideCalls ==
    { [pdf |-> MetaPdf, limit |-> FEATURE_MAX], [pdf |-> NoPdf, limit |-> MaxCap] }

BesideTexts ==
    { <<"C","P","U",":"," ","X","e","o","n"," ","6","3","3","8","\n","G","r","a","p","h","i","c","s"," ","p","r","o","c","e","s","s","o","r",":"," ","R","T","X"," ","4","0","9","0">>,
      <<"S","t","o","r","a","g","e",":"," ","2","T","B"," ","S","S","D","\n","s","t","o","r","a","g","e",":"," ","2","t","b"," ","s","s","d","\n","W","e","i","g","h","t"," ","-"," ","5"," ","k","g">>,
      <<"-"," ","2","x"," ","U","S","B"," ","3",".","0","\n","D","i","m","e","n","s","i","o","n","s",":"," ","1","0","0"," ","m","m","\n","G","P","U",":"," ","R","T","X"," ","4","0","9","0">>,
      <<"N","X","-","2","0","0"," ","d","a","t","a","s","h","e","e","t">> }

(***************************************************************************)
(* Bounds and inputs of the sessions                                       *)
(***************************************************************************)
MaxReruns == 4      \* most user actions of a session
MaxUndo == 2        \* most snapshots on the undo stack

\* The uploads: a datasheet, and a file read_pdf_text fails on.
Uploads ==
    { [name |-> <<"a",".","p","d","f">>, readable |-> TRUE, doc |-> MetaPdf,
       text |-> <<"C","P","U",":"," ","X","e","o","n"," ","6","3","3","8","\n","G","P","U",":"," ","R","T","X"," ","4","0","9","0">>],
      [name |-> <<"b",".","p","d","f">>, readable |-> FALSE, doc |-> NoPdf, text |-> <<>>] }

\* What the user types into a field, what the GPT call returns for it.
EditFields == <<"var_name", "var_desc", "var_summary", "var_feats">>
Typed ==
    [var_name |-> <<"Z","X","-","9">>, var_desc |-> <<"e","d","g","e"," ","b","o","x">>,
     var_summary |-> <<"a"," ","f","a","n","l","e","s","s"," ","e","d","g","e"," ","b","o","x">>, var_feats |-> <<"-"," ","2"," ","L","A","N">>]
Generated ==
    [var_name |-> <<"N","X","-","2","0","0">>, var_desc |-> <<"s","e","r","v","e","r">>,
     var_summary |-> <<"a"," ","s","e","r","v","e","r">>, var_feats |-> <<"-"," ","C","P","U"," ","1","\n","-"," ","R","A","M"," ","8"," ","G","B">>]
ThumbPath == <<"a","_","a","s","s","e","t","s","/","i","m","g","_","t","h","u","m","b","_","2","0","0","x","2","0","0",".","j","p","g">>

(***************************************************************************)
(* Initial states: one run of one of the kinds                             *)
(***************************************************************************)
NormIdle == items = <<>> /\ max_len = DefaultMaxLen /\ out = <<>> /\ again = <<>>
DocIdle == pdf = NoPdf /\ text = <<>>
ArgIdle == desc_max = DESC_MAX_DEFAULT /\ summary_max = SUMMARY_MAX_DEFAULT
           /\ limit = FEATURE_MAX
RuleIdle ==
    /\ desc = <<>> /\ summary = <<>> /\ kv = <<>> /\ bullets = <<>>
    /\ feats = <<>> /\ used = {} /\ cat = 1 /\ features = <<>>
CallIdle == raised = FALSE /\ prev = <<>>
HarvIdle == item_cap = 500
OtherIdle == other = <<>>
SessIdle == session_state = init_session_state(FALSE) /\ reruns = 0

InitNorm ==
    /\ pc = "norm"
    /\ \E c \in NormInputs : items = c[1] /\ max_len = c[2]
    /\ out = <<>>
    /\ again = <<>>
    /\ DocIdle /\ ArgIdle /\ RuleIdle /\ CallIdle /\ SessIdle /\ name = <<>> /\ HarvIdle /\ OtherIdle

InitTitle ==
    /\ pc = "title"
    /\ pdf \in TitlePdfs
    /\ text \in TitleTexts
    /\ name = <<>>
    /\ NormIdle /\ ArgIdle /\ RuleIdle /\ CallIdle /\ SessIdle /\ HarvIdle /\ OtherIdle

InitRules ==
    /\ pc = "rules"
    /\ \E c \in RuleCalls :
          pdf = c[1] /\ desc_max = c[2] /\ summary_max = c[3] /\ limit = c[4]
    /\ text \in Texts
    /\ name = <<>>
    /\ NormIdle /\ RuleIdle /\ CallIdle /\ SessIdle /\ HarvIdle /\ OtherIdle

\* A session starts with the fields of init_session_state; the API key is
\* there or not.
InitSession ==
    /\ pc = "session"
    /\ \E ready \in BOOLEAN : session_state = init_session_state(ready)
    /\ reruns = 0
    /\ NormIdle /\ DocIdle /\ ArgIdle /\ RuleIdle /\ CallIdle /\ name = <<>> /\ HarvIdle /\ OtherIdle

\* A harvester run: one of the two harvesters is called on a text.
InitHarvest ==
    /\ pc = "extract"
    /\ text \in HarvestTexts
    /\ item_cap \in HarvestCaps
    /\ pdf = NoPdf /\ name = <<>>
    /\ NormIdle /\ ArgIdle /\ RuleIdle /\ CallIdle /\ SessIdle /\ OtherIdle

\* Two invocations of rules_build_fields on different documents and limits.
InitBeside ==
    /\ pc = "rules"
    /\ \E c \in BesideCalls, d \in BesideCalls :
          /\ c.pdf # d.pdf /\ c.limit # d.limit
          /\ pdf = c.pdf /\ limit = c.limit
          /\ \E t \in BesideTexts : other = <<Frame(d.pdf, t, d.limit)>>
    /\ text \in BesideTexts
    /\ name = <<>>
    /\ NormIdle /\ ArgIdle /\ RuleIdle /\ CallIdle /\ SessIdle /\ HarvIdle

Init == InitNorm \/ InitTitle \/ InitRules \/ InitSession \/ InitHarvest \/ InitBeside

(***************************************************************************)
(* Normalizer runs: one call, then a call on its result                    *)
(***************************************************************************)
Normalize ==
    /\ pc = "norm"
    /\ out' = _normalize_korean_bullets(items, max_len)
    /\ pc' = "normalized"
    /\ UNCHANGED <<sessVars, harvVars, otherVars, items, max_len, again, docVars, argVars, name, ruleVars, callVars>>

Renormalize ==
    /\ pc = "normalized"
    /\ again' = _normalize_korean_bullets(out, max_len)
    /\ pc' = "renormalized"
    /\ UNCHANGED <<sessVars, harvVars, otherVars, items, max_len, out, docVars, argVars, name, ruleVars, callVars>>

NextNorm == Normalize \/ Renormalize

SpecNorm == InitNorm /\ [][NextNorm]_vars

(***************************************************************************)
(* Title runs: one call of guess_title_from_pdf                            *)
(***************************************************************************)
GuessTitle ==
    /\ pc = "title"
    /\ raised' = guess_title_raises(pdf)
    /\ name' = IF raised' THEN name ELSE guess_title_from_pdf(pdf, text)
    /\ pc' = "titled"
    /\ UNCHANGED <<sessVars, harvVars, otherVars, normVars, docVars, argVars, ruleVars, prev>>

NextTitle == GuessTitle

SpecTitle == InitTitle /\ [][NextTitle]_vars

(***************************************************************************)
(* rules_build_fields runs                                                 *)
(***************************************************************************)
\* Variant of Harvest: `used` is not a fresh set (line 436 is missing), it is
\* the set the call before left behind.
Harvest_KeepsUsed ==
    /\ pc = "rules"
    /\ raised' = guess_title_raises(pdf)
    /\ IF raised'
       THEN /\ pc' = "done"
            /\ UNCHANGED <<name, desc, summary, kv, bullets, feats, used, cat>>
       ELSE /\ name' = guess_title_from_pdf(pdf, text)
            /\ desc' = _truncate(text, desc_max)
            /\ summary' = _truncate(text, summary_max)
            /\ kv' = extract_kv_candidates(text, 500)
            /\ bullets' = extract_bullets(text, 300)
            /\ feats' = <<>>
            /\ used' = used
            /\ cat' = 1
            /\ pc' = "categories"
    /\ UNCHANGED <<sessVars, harvVars, otherVars, normVars, docVars, argVars, features, prev>>

\* Lines 428-436.  An exception that leaves guess_title_from_pdf leaves
\* rules_build_fields at line 428, before any local is bound.
Harvest ==
    /\ pc = "rules"
    /\ raised' = guess_title_raises(pdf)
    /\ IF raised'
       THEN /\ pc' = "done"
            /\ UNCHANGED <<name, desc, summary, kv, bullets, feats, used, cat>>
       ELSE /\ name' = guess_title_from_pdf(pdf, text)
            /\ desc' = _truncate(text, desc_max)
            /\ summary' = _truncate(text, summary_max)
            /\ kv' = extract_kv_candidates(text, 500)
            /\ bullets' = extract_bullets(text, 300)
            /\ feats' = <<>>
            /\ used' = {}
            /\ cat' = 1
            /\ pc' = "categories"
    /\ UNCHANGED <<sessVars, harvVars, otherVars, normVars, docVars, argVars, features, prev>>

\* Lines 439-447: one turn of the loop over REQUIRED_KEYS.
CategoryStep ==
    /\ pc = "categories"
    /\ LET key == REQUIRED_KEYS[cat]
           i == CategoryPick(key, kv, used)
           feats1 == IF i = 0 THEN feats ELSE Append(feats, Labelled(key, kv[i].v))
       IN  /\ feats' = feats1
           /\ used' = IF i = 0 THEN used ELSE used \cup {i}
           /\ IF Len(feats1) >= limit
              THEN /\ features' = Finish(feats1, limit)
                   /\ pc' = "done"
                   /\ cat' = cat
              ELSE /\ features' = features
                   /\ pc' = IF cat = Len(REQUIRED_KEYS) THEN "generic" ELSE "categories"
                   /\ cat' = IF cat = Len(REQUIRED_KEYS) THEN cat ELSE cat + 1
    /\ UNCHANGED <<sessVars, harvVars, otherVars, normVars, docVars, argVars, name, desc, summary, kv, bullets,
                   callVars>>

\* Lines 450-456: the loop over the candidates no category took.
GenericPass ==
    /\ pc = "generic"
    /\ LET r == GenericFrom(kv, 1, used, feats, limit)
       IN  /\ feats' = r.feats
           /\ IF r.full
              THEN features' = Finish(r.feats, limit) /\ pc' = "done"
              ELSE features' = features /\ pc' = "bullets"
    /\ UNCHANGED <<sessVars, harvVars, otherVars, normVars, docVars, argVars, name, desc, summary, kv, bullets,
                   used, cat, callVars>>

\* Lines 459-466: the harvested bullets, the normalizer, the cap.
BulletPass ==
    /\ pc = "bullets"
    /\ feats' = BulletFillFrom(bullets, 1, feats, limit)
    /\ features' = Finish(feats', limit)
    /\ pc' = "done"
    /\ UNCHANGED <<sessVars, harvVars, otherVars, normVars, docVars, argVars, name, desc, summary, kv, bullets,
                   used, cat, callVars>>

NextRules == Harvest \/ CategoryStep \/ GenericPass \/ BulletPass

SpecRules == InitRules /\ [][NextRules]_vars

\* rules_build_fields is called once more with the same arguments (a rerun of
\* the script on the same upload, lines 777-783).  What the first call returned
\* is kept in `prev`; what it left in its locals is still there when the
\* second call starts.
CallAgain ==
    /\ pc = "done" /\ prev = <<>> /\ ~raised
    /\ prev' = <<[name |-> name, desc |-> desc, summary |-> summary,
                 features |-> features]>>
    /\ pc' = "rules"
    /\ UNCHANGED <<sessVars, harvVars, otherVars, normVars, docVars, argVars, name, ruleVars, raised>>

NextTwice == NextRules \/ CallAgain

\* The calls that are repeated: the one of the application, and one with a
\* small cap, which returns from inside a loop.
InitTwice == InitRules /\ desc_max = DESC_MAX_DEFAULT /\ limit \in {MaxCap, FEATURE_MAX}

SpecTwice == InitTwice /\ [][NextTwice]_vars

\* The same calls, each made once: the runs the claims about the three
\* passes are checked on.
SpecPasses == InitTwice /\ [][NextRules]_vars

\* The runs that read a document: guess_title_from_pdf's and rules_build_fields'.
SpecResolve == (InitTitle \/ InitRules) /\ [][NextTitle \/ NextRules]_vars

\* The runs that produce bullet lists: the normalizer's and rules_build_fields'.
SpecFeatures == (InitNorm \/ InitRules) /\ [][NextNorm \/ NextRules]_vars

(***************************************************************************)
(* Two invocations side by side: the steps of the second one interleave    *)
(* with the steps of the first                                             *)
(***************************************************************************)
OtherStep ==
    /\ other # <<>> /\ other[1].pc # "done"
    /\ \E fr \in {FrameStep(other[1])} : other' = <<fr>>
    /\ UNCHANGED <<pc, sessVars, harvVars, normVars, docVars, argVars, name, ruleVars, callVars>>

NextBeside == NextRules \/ OtherStep

SpecBeside == InitBeside /\ [][NextBeside]_vars

(***************************************************************************)
(* Harvester runs: one call of extract_kv_candidates or of extract_bullets *)
(***************************************************************************)
ExtractKv ==
    /\ pc = "extract"
    /\ kv' = extract_kv_candidates(text, item_cap)
    /\ pc' = "kv_out"
    /\ UNCHANGED <<sessVars, harvVars, otherVars, normVars, docVars, argVars, name, desc, summary,
                   bullets, feats, used, cat, features, callVars>>

ExtractBullets ==
    /\ pc = "extract"
    /\ bullets' = extract_bullets(text, item_cap)
    /\ pc' = "bullets_out"
    /\ UNCHANGED <<sessVars, harvVars, otherVars, normVars, docVars, argVars, name, desc, summary,
                   kv, feats, used, cat, features, callVars>>

NextHarvest == ExtractKv \/ ExtractBullets

SpecHarvest == InitHarvest /\ [][NextHarvest]_vars

(***************************************************************************)
(* Sessions: one action per user action, each a run of the script          *)
(***************************************************************************)
InSession == pc \notin {"norm", "normalized", "renormalized", "title", "titled",
                        "rules", "categories", "generic", "bullets", "done",
                        "extract", "kv_out", "bullets_out"}

\* Lines 760-799: a new upload.  A file that cannot be read leaves through
\* the handler of line 798 with only pdf_name changed.
LoadPdf ==
    /\ InSession /\ reruns < MaxReruns
    /\ \E up \in Uploads :
          /\ session_state.pdf_name # <<up.name>>
          /\ IF ~up.readable
             THEN session_state' = [session_state EXCEPT !.pdf_name = <<up.name>>]
             ELSE \E r \in {rules_build_fields(up.doc, up.text, session_state.desc_max,
                                               session_state.summary_max, FEATURE_MAX)} :
                      LET ss1 == [session_state EXCEPT
                                     !.pdf_name = <<up.name>>, !.raw_text = up.text,
                                     !.var_name = r.name, !.var_desc = r.desc,
                                     !.var_summary = r.summary,
                                     !.var_feats = Join(r.features)]
                      IN  session_state' =
                              [ss1 EXCEPT !.initial_state = <<get_state(ss1)>>,
                                          !.undo_stack = <<>>]
    /\ pc' = "load_pdf"
    /\ reruns' = reruns + 1
    /\ UNCHANGED pipeVars

\* Lines 994, 1090, 1187, 1286: the user types into one of the four fields.
Edit ==
    /\ InSession /\ reruns < MaxReruns
    /\ \E i \in 1..Len(EditFields) :
          session_state' = [session_state EXCEPT ![EditFields[i]] = Typed[EditFields[i]]]
    /\ pc' = "edit"
    /\ reruns' = reruns + 1
    /\ UNCHANGED pipeVars

\* Line 1397: a thumbnail is saved for a picture of the loaded document.
SaveThumbnail ==
    /\ InSession /\ reruns < MaxReruns
    /\ session_state.pdf_name # None
    /\ session_state' = [session_state EXCEPT !.last_thumb_path = <<ThumbPath>>]
    /\ pc' = "thumbnail"
    /\ reruns' = reruns + 1
    /\ UNCHANGED pipeVars

\* The first k fields of `fields` are assigned what the GPT call returned.
RECURSIVE Assign(_, _, _)
Assign(ss, fields, k) ==
    IF k = 0 THEN ss
    ELSE [Assign(ss, fields, k - 1) EXCEPT ![fields[k]] = Generated[fields[k]]]

\* Lines 811-892: a GPT button.  The snapshot is taken first; a call that
\* raises leaves through its handler with the fields assigned so far.
Generate ==
    /\ InSession /\ reruns < MaxReruns
    /\ session_state.raw_text # <<>> /\ session_state.openai_ready
    /\ Len(session_state.undo_stack) < MaxUndo
    /\ \E fields \in {<<EditFields[i]>> : i \in 1..Len(EditFields)} \cup {EditFields} :
          \E k \in 0..Len(fields) :
              /\ session_state' = Assign(push_undo(session_state), fields, k)
              /\ pc' = IF k = Len(fields) THEN "generate" ELSE "generate_failed"
    /\ reruns' = reruns + 1
    /\ UNCHANGED pipeVars

\* Lines 718-720.
Snapshot ==
    /\ InSession /\ reruns < MaxReruns
    /\ Len(session_state.undo_stack) < MaxUndo
    /\ session_state' = push_undo(session_state)
    /\ pc' = "push_undo"
    /\ reruns' = reruns + 1
    /\ UNCHANGED pipeVars

\* Lines 712-713.
UndoOnce ==
    /\ InSession /\ reruns < MaxReruns
    /\ session_state' = undo_once(session_state)
    /\ pc' = "undo_once"
    /\ reruns' = reruns + 1
    /\ UNCHANGED pipeVars

\* Lines 715-716.
UndoToInitial ==
    /\ InSession /\ reruns < MaxReruns
    /\ session_state' = undo_to_initial(session_state)
    /\ pc' = "undo_to_initial"
    /\ reruns' = reruns + 1
    /\ UNCHANGED pipeVars

NextSession ==
    LoadPdf \/ Edit \/ SaveThumbnail \/ Generate \/ Snapshot \/ UndoOnce \/ UndoToInitial

SpecSession == InitSession /\ [][NextSession]_vars

Next == NextNorm \/ NextTitle \/ NextTwice \/ NextSession \/ NextHarvest \/ OtherStep

Spec == Init /\ [][Next]_vars

(***************************************************************************)
(* Properties                                                              *)
(***************************************************************************)
DashSpace == <<"-", " ">>

\* C1: the feature list rules_build_fields returns has at most `limit`
\* entries, whichever return statement ends the call.
C1_FeatureCap == pc = "done" => Len(features) <= limit

\* The normalized list is longer than the cap, so the slice does the capping.
C1_Witness ==
    pc = "done" /\ Len(_normalize_korean_bullets(feats, DefaultMaxLen)) > limit

\* C2: every string the normalizer returns, and every feature
\* rules_build_fields returns, starts with "- ".
C2_DashPrefix ==
    /\ \A i \in 1..Len(out) : startswith(out[i], DashSpace)
    /\ \A i \in 1..Len(again) : startswith(again[i], DashSpace)
    /\ \A i \in 1..Len(features) : startswith(features[i], DashSpace)

\* An item that came without the prefix is in the output.
C2_Witness ==
    /\ pc = "normalized" /\ out # <<>>
    /\ ~startswith(strip(items[1], WhiteSpace), DashSpace)

\* Two lists have no two entries that are equal when case is ignored.
NoCaseDuplicates(list) ==
    \A i, j \in 1..Len(list) : i # j => lower(list[i]) # lower(list[j])

\* C3: no two entries of a list the normalizer returns, or of the feature
\* list rules_build_fields returns, are equal case-insensitively.
C3_NoCaseDuplicates ==
    NoCaseDuplicates(out) /\ NoCaseDuplicates(again) /\ NoCaseDuplicates(features)

\* Two admitted items that differ only in case went in, one came out.
C3_Witness ==
    /\ pc = "normalized" /\ Len(items) = 2 /\ Len(out) = 1
    /\ Admitted(Canonical(items[2], max_len))
    /\ Canonical(items[1], max_len) # Canonical(items[2], max_len)
    /\ lower(Canonical(items[1], max_len)) = lower(Canonical(items[2], max_len))

\* C4: normalizing a normalized list returns the same list.
C4_Idempotent == pc = "renormalized" => again = out

\* C5: the description is at most desc_max characters long and the summary at
\* most summary_max, for desc_max in 10..200 and summary_max in 50..600.
C5_LengthLimits ==
    (desc_max \in 10..200 /\ summary_max \in 50..600)
        => (Len(desc) <= desc_max /\ Len(summary) <= summary_max)

\* The text is longer than both limits, so both cuts shorten it.
C5_Witness ==
    /\ pc = "done" /\ Len(strip(text, WhiteSpace)) > summary_max
    /\ summary_max > desc_max /\ Len(desc) = desc_max /\ Len(summary) = summary_max

\* A string holds a digit, a unit as a whole word, or a Hangul character.
HasFact(s) ==
    \/ \E i \in 1..Len(s) : s[i] \in Digits \cup HangulSet
    \/ \E u \in UNITS : \E i \in 1..(Len(s) - Len(u) + 1) :
        /\ lower(SubSeq(s, i, i + Len(u) - 1)) = u
        /\ (i = 1 \/ ~IsWord(s[i - 1]))
        /\ (i + Len(u) - 1 = Len(s) \/ ~IsWord(s[i + Len(u)]))

\* C6: every bullet the normalizer returns holds a digit, a unit as a whole
\* word or a Hangul character; a candidate whose canonical, cut form holds
\* none of them is not in the output.
C6_FactFilter ==
    pc = "normalized" =>
        /\ \A i \in 1..Len(out) : HasFact(out[i])
        /\ \A j \in 1..Len(items) :
              ~HasFact(Canonical(items[j], max_len))
                  => ~InList(Canonical(items[j], max_len), out)

\* A list of an item with such content and an item without: only the first
\* is returned.
C6_Witness ==
    /\ pc = "normalized" /\ Len(items) = 2 /\ Len(out) = 1
    /\ strip(items[2], WhiteSpace) # <<>>
    /\ ~HasFact(Canonical(items[2], max_len))

\* A label "- <key>: " opens the string.
HasLabel(s, key) == startswith(s, <<"-", " ">> \o key \o <<":", " ">>)

\* C7: when two candidates of the text match a CPU alias and a GPU alias and
\* the cap is at least 2, the features hold a CPU bullet before a GPU bullet.
C7_CpuBeforeGpu ==
    (/\ pc = "done" /\ limit >= 2
     /\ \E i, j \in 1..Len(kv) :
            /\ i # j
            /\ _matches_key(REQUIRED_KEYS[1], kv[i].k, kv[i].v)
            /\ _matches_key(REQUIRED_KEYS[2], kv[j].k, kv[j].v))
    => \E a, b \in 1..Len(features) :
            /\ a < b
            /\ HasLabel(features[a], REQUIRED_KEYS[1])
            /\ HasLabel(features[b], REQUIRED_KEYS[2])

\* C8: the name guess_title_from_pdf returns is at most 100 characters long.
C8_NameLength == pc = "titled" => Len(name) <= 100

\* C9: the name guess_title_from_pdf returns is never the empty string.
C9_NameNotEmpty == pc = "titled" => name # <<>>

\* Every step of the chain fell through: the document opens, its metadata
\* and spans give nothing, the text is blank, the placeholder is returned.
C9_Witness ==
    /\ pc = "titled" /\ pdf.opens /\ pdf.meta_ok /\ text # <<>>
    /\ name = PLACEHOLDER

\* C10: every bullet the normalizer returns is at most max_len characters
\* long.
C10_BulletLength ==
    pc = "normalized" => \A i \in 1..Len(out) : Len(out[i]) <= max_len

\* An item longer than the default cut is returned, cut.
C10_Witness ==
    /\ pc = "normalized" /\ max_len = DefaultMaxLen /\ Len(out) = 1
    /\ Len(Cleanup(PrefixFix(strip(items[1], WhiteSpace)))) > max_len

\* The text is empty or holds white space only.
BlankText == strip(text, WhiteSpace) = <<>>

\* The metadata of the document can be read and its title or its subject,
\* stripped, is 2 to 100 characters long.
UsableMeta(doc) ==
    /\ doc.opens /\ doc.meta_ok
    /\ \E v \in {doc.title, doc.subject} :
          Len(strip(v, WhiteSpace)) >= 2 /\ Len(strip(v, WhiteSpace)) <= 100

\* The spans of the document can be read and one of the first two pages, of
\* size 8 or more, is not blank.
UsableSpans(doc) ==
    /\ doc.opens /\ doc.spans_ok
    /\ \E i \in 1..Len(doc.spans) :
          /\ doc.spans[i].page <= 1 /\ doc.spans[i].size >= 8
          /\ strip(doc.spans[i].text, WhiteSpace) # <<>>

\* C11 as stated: for a blank text rules_build_fields returns the placeholder
\* as name, an empty description, an empty summary and no features.
C11_BlankTextPlaceholder ==
    (pc = "done" /\ BlankText)
        => (name = PLACEHOLDER /\ desc = <<>> /\ summary = <<>> /\ features = <<>>)

\* C11, amended: for a blank text the description and the summary are empty
\* and there are no features; the name is the placeholder when neither the
\* metadata nor the font spans of the document give a name, and is not
\* empty otherwise (the metadata or the spans give it).
C11_BlankText ==
    (pc = "done" /\ BlankText)
        => /\ desc = <<>> /\ summary = <<>> /\ features = <<>>
           /\ (~UsableMeta(pdf) /\ ~UsableSpans(pdf)) => name = PLACEHOLDER
           /\ (UsableMeta(pdf) \/ UsableSpans(pdf)) => name # <<>>

\* A text of white space only, a document that gives no name.
C11_Witness ==
    /\ pc = "done" /\ BlankText /\ text # <<>>
    /\ ~UsableMeta(pdf) /\ ~UsableSpans(pdf)
    /\ name = PLACEHOLDER /\ desc = <<>> /\ features = <<>>

\* Every harvested pair matches one of the categories and no two are equal.
AllPairsCategorized ==
    /\ \A i \in 1..Len(kv) :
          \E c \in 1..Len(REQUIRED_KEYS) : _matches_key(REQUIRED_KEYS[c], kv[i].k, kv[i].v)
    /\ \A i, j \in 1..Len(kv) : i # j => kv[i] # kv[j]

\* The first n features carry category labels in table order, the later ones
\* are pairs under their own key.
CategoriesFirst(n) ==
    /\ \E f \in [1..n -> 1..Len(REQUIRED_KEYS)] :
          /\ \A a \in 1..n : HasLabel(features[a], REQUIRED_KEYS[f[a]])
          /\ \A a, b \in 1..n : a < b => f[a] < f[b]
    /\ \A b \in (n + 1)..Len(features) :
          \E i \in 1..Len(kv) :
              features[b] = Canonical(Labelled(kv[i].k, kv[i].v), DefaultMaxLen)

\* C12: when the text gives at least `limit` distinct pairs that all match a
\* category, there are exactly `limit` features, the category bullets first
\* and in table order, the generic pairs after them.
C12_ExactlyCap ==
    (pc = "done" /\ Len(kv) >= limit /\ AllPairsCategorized)
        => /\ Len(features) = limit
           /\ \E n \in 0..Len(features) : CategoriesFirst(n)

\* `cut` is the first n characters of `whole`.
IsPrefixOfLength(cut, whole, n) ==
    /\ Len(cut) = (IF Len(whole) < n THEN Len(whole) ELSE n)
    /\ \A i \in 1..Len(cut) : cut[i] = whole[i]

\* No "\n" and no "\r" in the string.
SingleLine(s) == \A i \in 1..Len(s) : s[i] \notin {"\n", "\r"}

\* C13 as stated: the description is the first desc_max characters of the
\* text with every run of white space reduced to one space, the summary the
\* first summary_max characters of it, and neither holds a line break.
C13_CollapsedPrefix ==
    pc = "done" =>
        LET collapsed == strip(collapse_ws(text), WhiteSpace)
        IN  /\ IsPrefixOfLength(desc, collapsed, desc_max)
            /\ IsPrefixOfLength(summary, collapsed, summary_max)
            /\ SingleLine(desc) /\ SingleLine(summary)

\* The stripped text with a space in the place of each "\n"; every other
\* character, white space included, stays as it is.
LinesJoined ==
    LET t == strip(text, WhiteSpace)
    IN  [i \in 1..Len(t) |-> IF t[i] = "\n" THEN " " ELSE t[i]]

\* C13, amended: the description is the first desc_max characters, and the
\* summary the first summary_max characters, of the stripped text with each
\* "\n" replaced by one space; neither holds a "\n".
C13_JoinedPrefix ==
    pc = "done" =>
        /\ IsPrefixOfLength(desc, LinesJoined, desc_max)
        /\ IsPrefixOfLength(summary, LinesJoined, summary_max)
        /\ \A i \in 1..Len(desc) : desc[i] # "\n"
        /\ \A i \in 1..Len(summary) : summary[i] # "\n"

\* A text of two lines whose break falls inside the description, followed by
\* white space that stays.
C13_Witness ==
    /\ pc = "done"
    /\ \E i \in 1..(Len(desc) - 1) :
          /\ strip(text, WhiteSpace)[i] = "\n"
          /\ desc[i] = " " /\ desc[i + 1] = " "

\* The candidates the category at `cat` may take: not taken yet, and matching
\* one of its aliases in key or value.
Traceable ==
    {i \in 1..Len(kv) :
        i \notin used /\ _matches_key(REQUIRED_KEYS[cat], kv[i].k, kv[i].v)}

\* C15: a turn of the category pass appends "- <key>: <value>" only for a
\* harvested candidate that matches an alias of the category, with the value
\* of that candidate; with no such candidate it appends nothing.
C15_NeverInvent ==
    [][pc = "categories" =>
          \/ feats' = feats /\ Traceable = {}
          \/ \E i \in Traceable :
                feats' = Append(feats, Labelled(REQUIRED_KEYS[cat], kv[i].v))]_vars

\* The category pass is over: one category found its candidate, the others
\* found none and left nothing.
C15_Witness ==
    /\ pc = "generic" /\ Len(kv) = 2
    /\ Len(feats) = 1 /\ \E i \in used : feats[1] = Labelled(REQUIRED_KEYS[4], kv[i].v)

\* C16: with a cap that leaves room for every category, each category that
\* some harvested pair matches has a bullet under its key in the features.
C16_IncludeIfPresent ==
    (pc = "done" /\ limit >= Len(REQUIRED_KEYS))
        => \A c \in 1..Len(REQUIRED_KEYS) :
              (\E i \in 1..Len(kv) : _matches_key(REQUIRED_KEYS[c], kv[i].k, kv[i].v))
                  => \E j \in 1..Len(features) : HasLabel(features[j], REQUIRED_KEYS[c])

\* The title of the document, stripped, is 2 to 100 characters long.
UsableTitle(doc) ==
    /\ doc.opens /\ doc.meta_ok
    /\ Len(strip(doc.title, WhiteSpace)) >= 2 /\ Len(strip(doc.title, WhiteSpace)) <= 100

\* Other font spans a document could have, and other raw texts: none, one
\* with a code in it, one without.
OtherSpans ==
    { <<>>,
      <<[page |-> 0, size |-> 9, text |-> <<"R","S","-","4","8","5">>]>>,
      <<[page |-> 1, size |-> 12, text |-> <<"E","d","g","e"," ","S","e","r","v","e","r">>]>> }

OtherTexts == {<<>>, <<"z","z"," ","t","o","p">>, <<"5"," ","G","X","-","7","/","B"," ","x">>}

\* C20: the first step that succeeds gives the name, in the order metadata
\* (title, then subject), font spans, pattern in the raw text, first line that
\* is not blank, placeholder; what the later steps would read does not matter.
C20_FirstSuccessWins ==
    pc = "titled" =>
        /\ UsableTitle(pdf) =>
              \A s \in MetaStrings :
                  guess_title_from_pdf([pdf EXCEPT !.subject = s], text) = name
        /\ UsableMeta(pdf) =>
              \A l \in OtherSpans, t \in OtherTexts :
                  guess_title_from_pdf([pdf EXCEPT !.spans = l, !.spans_ok = TRUE], t) = name
        /\ (~UsableMeta(pdf) /\ UsableSpans(pdf)) =>
              \A t \in OtherTexts : guess_title_from_pdf(pdf, t) = name
        /\ (~UsableMeta(pdf) /\ ~UsableSpans(pdf)) =>
              IF MODEL_RX(text) # <<>> THEN name = Take(MODEL_RX(text), 80)
              ELSE IF BlankText THEN name = PLACEHOLDER
              ELSE name = Take(FirstLine(splitlines(text)), 80)

\* The font spans give the name although the raw text holds a code of its own.
C20_Witness ==
    /\ pc = "titled" /\ ~UsableMeta(pdf) /\ UsableSpans(pdf)
    /\ MODEL_RX(text) # <<>> /\ name # Take(MODEL_RX(text), 80)

\* The call has returned.
Returned == pc \in {"titled", "done"}

\* The document with nothing in its metadata, with no font spans, and with
\* reads that do not fail.
NoMetadata(doc) == [doc EXCEPT !.opens = TRUE, !.meta_ok = TRUE, !.title = <<>>, !.subject = <<>>]
NoSpans(doc) == [doc EXCEPT !.opens = TRUE, !.spans_ok = TRUE, !.spans = <<>>]

\* C17: no call leaves through an exception, whatever fails while the
\* document is read; a metadata read that fails counts as no metadata, a span
\* read that fails as no spans, a document that does not open as neither.
C17_NeverRaises ==
    /\ ~raised
    /\ (Returned /\ pdf.opens /\ ~pdf.meta_ok)
          => name = guess_title_from_pdf(NoMetadata(pdf), text)
    /\ (Returned /\ pdf.opens /\ ~pdf.spans_ok)
          => name = guess_title_from_pdf(NoSpans(pdf), text)
    /\ (Returned /\ ~pdf.opens)
          => name = guess_title_from_pdf(NoSpans(NoMetadata(pdf)), text)

\* rules_build_fields has returned for a document that does not open: the
\* name comes from the text.
C17_Witness ==
    /\ pc = "done" /\ ~pdf.opens /\ ~BlankText /\ ~raised
    /\ name # <<>> /\ name # PLACEHOLDER

C18_UndoLifo ==
    [][LET stack == session_state.undo_stack
           n == Len(stack)
       IN  /\ (UndoOnce /\ n > 0) =>
                 /\ get_state(session_state') = stack[n]
                 /\ session_state'.undo_stack = SubSeq(stack, 1, n - 1)
           /\ (UndoOnce /\ n = 0) => session_state' = session_state
           /\ (Snapshot \/ Generate) =>
                 session_state'.undo_stack = Append(stack, get_state(session_state))
           /\ (Edit \/ SaveThumbnail) => session_state'.undo_stack = stack]_vars

\* An undo has taken the upper of two snapshots that differ: the fields are
\* not the ones of the snapshot still on the stack.
C18_Witness ==
    /\ pc = "undo_once" /\ Len(session_state.undo_stack) = 1
    /\ get_state(session_state) # session_state.undo_stack[1]
    /\ session_state.var_name = Generated.var_name

\* C19: undo_to_initial after a load puts the five fields back to what they
\* were right after that load and empties the stack; what they were right
\* after the load is kept in initial_state, which only a load that succeeds
\* writes.
C19_UndoToInitial ==
    [][/\ (UndoToInitial /\ session_state.initial_state # None) =>
             /\ <<get_state(session_state')>> = session_state.initial_state
             /\ session_state'.undo_stack = <<>>
       /\ session_state'.initial_state # session_state.initial_state =>
             /\ LoadPdf
             /\ session_state'.initial_state = <<get_state(session_state')>>
             /\ session_state'.undo_stack = <<>>]_vars

\* The fields are back at the loaded ones after a GPT call, an edit and the
\* restore.
C19_Witness ==
    /\ pc = "undo_to_initial" /\ reruns = 4
    /\ session_state.initial_state = <<get_state(session_state)>>
    /\ session_state.undo_stack = <<>>
    /\ session_state.var_desc # <<>>

\* The lines of the text, trimmed.
TrimmedLines == [i \in 1..Len(splitlines(text)) |-> strip(splitlines(text)[i], WhiteSpace)]

\* Where a trimmed line is split: at its first colon, or else at its first
\* " - "; <<0, 0>> with neither.  <<last index of the key, first of the value>>.
SplitAt(s) ==
    IF Find(s, <<":">>) # 0 THEN <<Find(s, <<":">>) - 1, Find(s, <<":">>) + 1>>
    ELSE IF Find(s, <<" ", "-", " ">>) # 0
         THEN <<Find(s, <<" ", "-", " ">>) - 1, Find(s, <<" ", "-", " ">>) + 3>>
    ELSE <<0, 0>>

KeyOf(s) == strip(SubSeq(s, 1, SplitAt(s)[1]), WhiteSpace)
ValueOf(s) == strip(SubSeq(s, SplitAt(s)[2], Len(s)), WhiteSpace)

\* The trimmed line gives a candidate: not empty, at most 300 characters, a
\* separator, a key of 1 to 60 characters and a value.
GivesPair(s) ==
    /\ s # <<>> /\ Len(s) <= 300
    /\ SplitAt(s) # <<0, 0>>
    /\ Len(KeyOf(s)) >= 1 /\ Len(KeyOf(s)) <= 60
    /\ ValueOf(s) # <<>>

\* The n-th smallest element of a set of numbers.
NthOf(S, n) == CHOOSE i \in S : Cardinality({j \in S : j <= i}) = n

\* The candidates of the lines that give one, in line order.
PairsOfLines ==
    LET good == {i \in 1..Len(TrimmedLines) : GivesPair(TrimmedLines[i])}
    IN  [n \in 1..Cardinality(good) |->
            [k |-> KeyOf(TrimmedLines[NthOf(good, n)]),
             v |-> ValueOf(TrimmedLines[NthOf(good, n)])]]

\* C21 as stated: the harvester returns one candidate for each line that is
\* not empty, at most 300 characters long, has a colon or else " - ", a key
\* of 1 to 60 characters and a value, split at the first colon or else the
\* first " - ", in line order, and nothing for any other line.
C21_PairPerLine ==
    pc = "kv_out" => kv = PairsOfLines

\* C21, amended: the harvester returns the candidates of those lines, in line
\* order, up to the first max_items of them (max_items >= 1); with
\* max_items = 0 it returns at most the first of them.
C21_PairPerLineUpToCap ==
    pc = "kv_out" =>
        /\ item_cap >= 1 => kv = Take(PairsOfLines, item_cap)
        /\ item_cap = 0 => Len(kv) <= 1 /\ kv = Take(PairsOfLines, Len(kv))

\* Two lines under a cap that leaves room for both: one has a colon but no
\* key and gives nothing although " - " would split it, the other gives the
\* one candidate.
C21_Witness ==
    /\ pc = "kv_out" /\ item_cap >= 2
    /\ Len(TrimmedLines) = 2 /\ Len(kv) = 1
    /\ \E i \in 1..2 :
          /\ ~GivesPair(TrimmedLines[i])
          /\ Find(TrimmedLines[i], <<":">>) = 1
          /\ Find(TrimmedLines[i], <<" ", "-", " ">>) # 0

\* The characters line 405 strips from both ends after the markers.
SeparatorChars == {" ", "-", ENDASH, EMDASH, MIDDOT, ":", "*"}

\* C22: with max_items >= 1 the bullet harvester returns at most max_items
\* texts; each is not empty, does not start with a marker character and does
\* not end with a separator character or a space; each comes from a line
\* whose trimmed form starts with a marker, and they are in line order.
C22_MarkedLinesOnly ==
    (pc = "bullets_out" /\ item_cap >= 1) =>
        /\ Len(bullets) <= item_cap
        /\ \A j \in 1..Len(bullets) :
              /\ bullets[j] # <<>>
              /\ bullets[j][1] \notin BULLET_MARKERS
              /\ bullets[j][Len(bullets[j])] \notin SeparatorChars
        /\ \E f \in [1..Len(bullets) -> 1..Len(TrimmedLines)] :
              /\ \A a, b \in 1..Len(bullets) : a < b => f[a] < f[b]
              /\ \A j \in 1..Len(bullets) :
                    /\ TrimmedLines[f[j]] # <<>>
                    /\ TrimmedLines[f[j]][1] \in BULLET_MARKERS
                    /\ Contains(TrimmedLines[f[j]], bullets[j])

\* C23: in the category pass the categories before the one at turn have
\* left at most one bullet each and each of these bullets consumed its own
\* candidate; the category at turn takes the lowest candidate that matches
\* it and that no earlier category consumed, appends the one bullet for it
\* and marks it consumed, or, with no such candidate, appends and marks
\* nothing.
C23_OnePerCategory ==
    [][pc = "categories" =>
          /\ Len(feats) <= cat - 1
          /\ Cardinality(used) = Len(feats)
          /\ Traceable = {} => feats' = feats /\ used' = used
          /\ Traceable # {} =>
                LET i == CHOOSE i \in Traceable : \A j \in Traceable : i <= j
                IN  /\ feats' = Append(feats, Labelled(REQUIRED_KEYS[cat], kv[i].v))
                    /\ used' = used \cup {i}]_vars

\* Two candidates match the first category; it took the first of them, and
\* the second went to the second category.
C23_Witness ==
    /\ pc \in {"generic", "done"} /\ Len(kv) = 2 /\ used = {1, 2} /\ Len(feats) = 2
    /\ \A i \in 1..2 : _matches_key(REQUIRED_KEYS[1], kv[i].k, kv[i].v)
    /\ feats[1] = Labelled(REQUIRED_KEYS[1], kv[1].v)
    /\ feats[2] = Labelled(REQUIRED_KEYS[2], kv[2].v)

\* f is increasing on the interval from..to.
Increasing(f, from, to) == \A a, b \in from..to : a < b => f[a] < f[b]

\* C24: the list the passes assemble holds first the category bullets in
\* table order, then the pairs no category consumed under their own keys in
\* line order, then the harvested bullets in line order; no entry of the two
\* later parts equals an entry before it; the features returned are
\* canonical forms of entries of that list, in the order of the list.
C24_ThreePhases ==
    pc = "done" =>
        LET n == Cardinality(used)
            all == Len(feats)
        IN  /\ n <= all
            /\ \E f \in [1..n -> 1..Len(REQUIRED_KEYS)] :
                  /\ Increasing(f, 1, n)
                  /\ \A a \in 1..n :
                        \E i \in used : feats[a] = Labelled(REQUIRED_KEYS[f[a]], kv[i].v)
            /\ \E m \in n..all :
                  /\ \E g \in [(n + 1)..m -> (1..Len(kv)) \ used] :
                        /\ Increasing(g, n + 1, m)
                        /\ \A a \in (n + 1)..m :
                              feats[a] = Labelled(kv[g[a]].k, kv[g[a]].v)
                  /\ \E h \in [(m + 1)..all -> 1..Len(bullets)] :
                        /\ Increasing(h, m + 1, all)
                        /\ \A a \in (m + 1)..all :
                              feats[a] = (IF startswith(bullets[h[a]], <<"-">>)
                                          THEN bullets[h[a]]
                                          ELSE <<"-", " ">> \o bullets[h[a]])
            /\ \A a \in (n + 1)..all : \A b \in 1..(a - 1) : feats[b] # feats[a]
            /\ \E s \in [1..Len(features) -> 1..all] :
                  /\ Increasing(s, 1, Len(features))
                  /\ \A j \in 1..Len(features) :
                        features[j] = Canonical(feats[s[j]], DefaultMaxLen)

\* A category bullet followed by a harvested bullet; the normalizer has
\* rewritten one of them and kept the order.
C24_Witness ==
    /\ pc = "done" /\ Cardinality(used) = 1 /\ Len(kv) = 1 /\ Len(bullets) = 1
    /\ Len(feats) = 2 /\ feats[2] = <<"-", " ">> \o bullets[1]
    /\ Len(features) = 2 /\ features # feats

\* C25: every bullet the normalizer returns is "- " followed by text that
\* does not begin with "-", the bullet character, "*" or a space: the whole
\* leading run of these characters has been stripped before the prefix was
\* put in front.
C25_LeadingRunStripped ==
    pc = "normalized" =>
        \A i \in 1..Len(out) :
            /\ startswith(out[i], DashSpace)
            /\ Len(out[i]) > 2 => out[i][3] \notin {"-", BULLET, "*", " "}

\* Item i of the input is not blank and its canonical form equals s when
\* case is ignored.
SameBullet(i, s) ==
    /\ strip(items[i], WhiteSpace) # <<>>
    /\ lower(Canonical(items[i], max_len)) = lower(s)

\* C26: the list the normalizer returns is not longer
\* than its input, and its entries are canonical forms of input items, in
\* input order, each the form of the first input item whose canonical form
\* equals it when case is ignored; no two entries are equal when case is
\* ignored.
C26_OrderedSelection ==
    pc = "normalized" =>
        /\ Len(out) <= Len(items)
        /\ \A i, j \in 1..Len(out) : i # j => lower(out[i]) # lower(out[j])
        /\ \E s \in [1..Len(out) -> 1..Len(items)] :
              /\ \A a, b \in 1..Len(out) : a < b => s[a] < s[b]
              /\ \A j \in 1..Len(out) :
                    /\ strip(items[s[j]], WhiteSpace) # <<>>
                    /\ out[j] = Canonical(items[s[j]], max_len)
                    /\ \A i \in 1..(s[j] - 1) : ~SameBullet(i, out[j])

\* Two items went in and came out, different and in the order they had.
C26_Witness ==
    /\ pc = "normalized" /\ Len(items) = 2 /\ Len(out) = 2
    /\ out[1] # out[2]
    /\ out[1] = Canonical(items[1], max_len) /\ out[2] = Canonical(items[2], max_len)

\* The text is one line, "<key>: <value>", whose parts the harvester took as
\* they are and which the normalizer leaves as it is.
OnePlainPair ==
    /\ Len(kv) = 1
    /\ text = kv[1].k \o <<":", " ">> \o kv[1].v
    /\ Canonical(Labelled(kv[1].k, kv[1].v), DefaultMaxLen) = Labelled(kv[1].k, kv[1].v)

\* C27: when the text is the one line "<key>: <value>" with the key of a
\* category, a digit in the value and at most 64 characters in the bullet,
\* the features returned under a cap of 1 or more hold "- <key>: <value>".
C27_LabelledAsNamed ==
    (pc = "done" /\ limit >= 1 /\ OnePlainPair /\ HasDigit(kv[1].v)
        /\ Len(Labelled(kv[1].k, kv[1].v)) <= 64
        /\ \E c \in 1..Len(REQUIRED_KEYS) : kv[1].k = REQUIRED_KEYS[c])
        => InList(Labelled(kv[1].k, kv[1].v), features)

\* What an invocation returns.
Returns(n, d, s, f) == [name |-> n, desc |-> d, summary |-> s, features |-> f]

\* C28: whatever the order in which the steps of two invocations on different
\* documents and limits are taken, each returns what rules_build_fields
\* returns for its own arguments.
C28_NoInterference ==
    /\ (pc = "done" /\ ~raised) =>
          Returns(name, desc, summary, features)
              = rules_build_fields(pdf, text, desc_max, summary_max, limit)
    /\ (other # <<>> /\ other[1].pc = "done") =>
          Returns(other[1].name, other[1].desc, other[1].summary, other[1].features)
              = rules_build_fields(other[1].pdf, other[1].text, other[1].desc_max,
                                   other[1].summary_max, other[1].limit)

\* The second invocation has returned features while the first is inside its
\* category loop with a candidate consumed.
C28_Witness ==
    /\ other # <<>> /\ other[1].pc = "done" /\ other[1].features # <<>>
    /\ other[1].used # {}
    /\ pc = "categories" /\ cat > 1 /\ used # {} /\ used # other[1].used

\* The four text fields of the session.
TextFields(ss) == <<ss.var_name, ss.var_desc, ss.var_summary, ss.var_feats>>

\* C29: a GPT action that fails leaves name, description, summary and
\* features as they were before it, so the snapshot it pushed at its start
\* equals the state after it.
C29_FailedGenerationKeepsFields ==
    [][(Generate /\ pc' = "generate_failed") =>
          /\ TextFields(session_state') = TextFields(session_state)
          /\ session_state'.undo_stack[Len(session_state'.undo_stack)]
                = get_state(session_state')]_vars

\* C30: undo_once on an empty stack returns False and leaves the five fields
\* and the stack as they are; undo_to_initial with no initial state recorded
\* returns False and leaves the five fields and the stack as they are.
C30_NothingToUndo ==
    [][/\ (UndoOnce /\ session_state.undo_stack = <<>>) =>
             /\ ~undo_once_returns(session_state)
             /\ get_state(session_state') = get_state(session_state)
             /\ session_state'.undo_stack = <<>>
       /\ (UndoToInitial /\ session_state.initial_state = None) =>
             /\ ~undo_to_initial_returns(session_state)
             /\ get_state(session_state') = get_state(session_state)
             /\ session_state'.undo_stack = session_state.undo_stack]_vars

\* A restore with no document loaded: the text typed and the snapshot taken
\* before it are still there.
C30_Witness ==
    /\ pc = "undo_to_initial" /\ session_state.initial_state = None
    /\ session_state.undo_stack # <<>> /\ session_state.var_name # <<>>

====
